---- MODULE Spec2Model ----
(***************************************************************************)
(* A model of the password generator core (src/core): option validation    *)
(* and normalization, charset composition, the rejection sampler, the      *)
(* Fisher-Yates shuffle, generatePassword and generatePassphrase; and of   *)
(* the PasswordGenerator component's stored settings.                      *)
(*                                                                         *)
(* JavaScript values are tagged records, so that a field may hold a value  *)
(* of any type: [t |-> "undefined"], [t |-> "null"], [t |-> "boolean", b], *)
(* [t |-> "string", s], [t |-> "number", q] and the include object.        *)
(* A number is held in units of 1/Scale (q = Scale * value), which keeps   *)
(* fractional lengths exact.  Strings of characters (charsets, passwords)  *)
(* are sequences of one-character strings.                                 *)
(***************************************************************************)
EXTENDS Integers, Sequences, FiniteSets, TLC

VARIABLES
    options,    \* the Partial<PasswordOptions> a core function is called with
    op,         \* which core call has run last in the options behaviours
    ret,        \* the value that call returned
    prev,       \* the value the call before it returned
    setSize,    \* sampler enumeration: the n under test
    fed,        \* sampler enumeration: the number of byte values fed so far
    tally,      \* sampler enumeration: index -> times returned
    rejected,   \* sampler enumeration: the byte values the sampler redrew on
    rng,        \* generation: the RandomSource, [sequence, index]
    pc,         \* generation: position in generatePassword
    normalized, \* generation: normalizePasswordOptions(options)
    unionCharset,   \* generation: buildCharset(...)
    classCharsets,  \* generation: getClassCharsets(...)
    password,   \* generation: the working buffer
    loopIndex,  \* generation: loop counter of the loop pc names
    remaining,  \* generation: number of union fill draws
    error,      \* generation: the message of the Error thrown, "" if none
    words,      \* generatePassphrase: the words drawn so far
    passphrase, \* generatePassphrase: the string being built
    draws,      \* the sampler calls that returned: [n, index]
    shuffleArray,   \* shuffle: the array being shuffled in place
    shuffleInput,   \* shuffle: the array as it was passed in
    settings,   \* component: the settings state
    storage,    \* component: the localStorage item under STORAGE_KEY
    clipboard,  \* component: the text last written to the clipboard
    calls       \* concurrent calls: call -> the locals of that call

optVars == <<options, op, ret, prev>>
samplerVars == <<setSize, fed, tally, rejected>>
genVars == <<rng, pc, normalized, unionCharset, classCharsets, password, loopIndex,
             remaining, error>>
passVars == <<words, passphrase, draws>>
shuffleVars == <<shuffleArray, shuffleInput>>
compVars == <<settings, storage, clipboard>>
callVars == <<calls>>
extVars == <<passVars, shuffleVars, compVars, callVars>>
vars == <<optVars, samplerVars, genVars, extVars>>

----------------------------------------------------------------------------
(* Bounds of the model *)

\* numbers are held in units of 1/Scale
Scale == 4
\* lengths explored run from -LengthSpan to PASSWORD_LENGTH_MAX + LengthSpan
LengthSpan == 3
\* the test RandomSource cycles through a sequence of 1..MaxRngPeriod bytes
MaxRngPeriod == 2

----------------------------------------------------------------------------
(* JavaScript values *)

Undefined == [t |-> "undefined"]
Null == [t |-> "null"]
Bool(b) == [t |-> "boolean", b |-> b]
Str(s) == [t |-> "string", s |-> s]
\* the number q / Scale
NumQ(q) == [t |-> "number", q |-> q]
\* the integer i
Num(i) == NumQ(i * Scale)
Include(lo, up, di, sy) ==
    [t |-> "object", lowercase |-> lo, uppercase |-> up, digits |-> di,
     symbols |-> sy]

\* ToBoolean, as applied by `if (x)`, `x && y`, `x ? a : b`, filter(Boolean)
Truthy(v) ==
    CASE v.t = "boolean" -> v.b
      [] v.t = "string" -> v.s # ""
      [] v.t = "number" -> v.q # 0
      [] v.t = "object" -> TRUE
      [] OTHER -> FALSE

\* a || d where the code has a ?? d
CoalesceOr(a, d) == IF Truthy(a) THEN a ELSE d
\* a ?? d
Coalesce(a, d) == IF a.t \in {"undefined", "null"} THEN d ELSE a

\* Math.round on a finite number: floor(x + 0.5)
MathRoundTruncates(q) == (q \div Scale) * Scale
MathRoundUp(q) == ((q \div Scale) + 1) * Scale
MathRound(q) == ((2 * q + Scale) \div (2 * Scale)) * Scale

MathMin(a, b) == IF a < b THEN a ELSE b
MathMax(a, b) == IF a > b THEN a ELSE b

\* Number.isInteger on a finite number
NumberIsInteger(q) == q % Scale = 0

----------------------------------------------------------------------------
(* constants.ts *)

LOWER == <<"a","b","c","d","e","f","g","h","i","j","k","l","m",
           "n","o","p","q","r","s","t","u","v","w","x","y","z">>
UPPER == <<"A","B","C","D","E","F","G","H","I","J","K","L","M",
           "N","O","P","Q","R","S","T","U","V","W","X","Y","Z">>
DIGIT == <<"0","1","2","3","4","5","6","7","8","9">>
SYMBOL == <<"!","@","#","$","%","^","&","*","(",")","-","_","=","+",
            "[","]","{","}",";",":",",",".","?">>
AMBIGUOUS_CHARS == <<"I","l","1","O","0","|">>

PASSWORD_LENGTH_MIN == 8
PASSWORD_LENGTH_MAX == 128
DEFAULT_PASSWORD_LENGTH == 20

----------------------------------------------------------------------------
(* validation.ts *)

defaultInclude == Include(Bool(TRUE), Bool(TRUE), Bool(TRUE), Bool(FALSE))

\* [a, b, c, d].filter(Boolean).length
CountTruthy(include) ==
    Cardinality({f \in {"lowercase", "uppercase", "digits", "symbols"} :
                    Truthy(include[f])})

LengthErrors(q) ==
    IF ~NumberIsInteger(q)
    THEN <<"Length must be an integer">>
    ELSE IF q < PASSWORD_LENGTH_MIN * Scale \/ q > PASSWORD_LENGTH_MAX * Scale
         THEN <<"Length must be between 8 and 128">>
         ELSE <<>>

ClassErrors(enabledClasses) ==
    IF enabledClasses = 0
    THEN <<"At least one character class must be enabled">>
    ELSE <<>>

RequireEachErrors(requireEachClass, q, enabledClasses) ==
    IF Truthy(requireEachClass) /\ q < enabledClasses * Scale
    THEN <<"Length must be at least " \o ToString(enabledClasses)
           \o " when requiring each class">>
    ELSE <<>>

\* a validation that stops at the first violated rule
validateFirstErrorOnly(o) ==
    LET length == Coalesce(o.length, Num(DEFAULT_PASSWORD_LENGTH))
        include == Coalesce(o.include, defaultInclude)
        enabledClasses == CountTruthy(include)
        all == LengthErrors(length.q) \o ClassErrors(enabledClasses)
               \o RequireEachErrors(o.requireEachClass, length.q, enabledClasses)
        errors == IF all = <<>> THEN all ELSE <<Head(all)>>
    IN  [valid |-> Len(errors) = 0, errors |-> errors]

validatePasswordOptions(o) ==
    LET length == Coalesce(o.length, Num(DEFAULT_PASSWORD_LENGTH))
        include == Coalesce(o.include, defaultInclude)
        enabledClasses == CountTruthy(include)
        errors == LengthErrors(length.q) \o ClassErrors(enabledClasses)
                  \o RequireEachErrors(o.requireEachClass, length.q, enabledClasses)
    IN  [valid |-> Len(errors) = 0, errors |-> errors]

\* a normalization that puts the default in place of any length
NormalizeLengthDefault(length) == Num(DEFAULT_PASSWORD_LENGTH)

\* a normalization that rounds the length and does not clamp it
NormalizeLengthRoundOnly(length) ==
    NumQ(MathRound(Coalesce(length, Num(DEFAULT_PASSWORD_LENGTH)).q))

\* Math.max(MIN, Math.min(MAX, Math.round(length ?? DEFAULT)))
NormalizeLength(length) ==
    NumQ(MathMax(PASSWORD_LENGTH_MIN * Scale,
                 MathMin(PASSWORD_LENGTH_MAX * Scale,
                         MathRound(Coalesce(length,
                                            Num(DEFAULT_PASSWORD_LENGTH)).q))))

NormalizeInclude(include) ==
    IF Truthy(include)
    THEN Include(Coalesce(include.lowercase, defaultInclude.lowercase),
                 Coalesce(include.uppercase, defaultInclude.uppercase),
                 Coalesce(include.digits, defaultInclude.digits),
                 Coalesce(include.symbols, defaultInclude.symbols))
    ELSE defaultInclude

normalizePasswordOptions(o) ==
    [length |-> NormalizeLength(o.length),
     include |-> NormalizeInclude(o.include),
     excludeAmbiguous |-> Coalesce(o.excludeAmbiguous, Bool(TRUE)),
     requireEachClass |-> Coalesce(o.requireEachClass, Bool(TRUE))]

----------------------------------------------------------------------------
(* charsets.ts *)

\* s.includes(c) for a one-character c
Includes(s, c) == \E i \in 1..Len(s) : s[i] = c

\* s.split('').filter(c => !bad.includes(c)).join(''), also s.replace(/[bad]/g, '')
Without(s, bad) == SelectSeq(s, LAMBDA c : ~Includes(bad, c))

\* AMBIGUOUS_CHARS.replace('|', ''): the first '|' removed
AmbiguousWithoutPipe ==
    LET at == CHOOSE i \in 1..Len(AMBIGUOUS_CHARS) :
                 /\ AMBIGUOUS_CHARS[i] = "|"
                 /\ \A j \in 1..(i - 1) : AMBIGUOUS_CHARS[j] # "|"
    IN  SubSeq(AMBIGUOUS_CHARS, 1, at - 1)
        \o SubSeq(AMBIGUOUS_CHARS, at + 1, Len(AMBIGUOUS_CHARS))

\* a buildCharset that forgets the ambiguous filter
buildCharsetUnfiltered(include, excludeAmbiguous) ==
    (IF Truthy(include.lowercase) THEN LOWER ELSE <<>>)
    \o (IF Truthy(include.uppercase) THEN UPPER ELSE <<>>)
    \o (IF Truthy(include.digits) THEN DIGIT ELSE <<>>)
    \o (IF Truthy(include.symbols) THEN SYMBOL ELSE <<>>)

\* a buildCharset that puts the uppercase letters first
buildCharsetUpperFirst(include, excludeAmbiguous) ==
    LET charset ==
            (IF Truthy(include.uppercase) THEN UPPER ELSE <<>>)
            \o (IF Truthy(include.lowercase) THEN LOWER ELSE <<>>)
            \o (IF Truthy(include.digits) THEN DIGIT ELSE <<>>)
            \o (IF Truthy(include.symbols) THEN SYMBOL ELSE <<>>)
    IN  IF Truthy(excludeAmbiguous) THEN Without(charset, AMBIGUOUS_CHARS)
        ELSE charset

buildCharset(include, excludeAmbiguous) ==
    LET charset ==
            (IF Truthy(include.lowercase) THEN LOWER ELSE <<>>)
            \o (IF Truthy(include.uppercase) THEN UPPER ELSE <<>>)
            \o (IF Truthy(include.digits) THEN DIGIT ELSE <<>>)
            \o (IF Truthy(include.symbols) THEN SYMBOL ELSE <<>>)
        ambiguousSet == IF Truthy(include.symbols)
                        THEN AMBIGUOUS_CHARS
                        ELSE AmbiguousWithoutPipe
    IN  IF Truthy(excludeAmbiguous) THEN Without(charset, ambiguousSet)
        ELSE charset

\* a class set that forgets the ambiguous filter
ClassSetUnfiltered(enabled, canonical, excludeAmbiguous, bad) ==
    IF Truthy(enabled) THEN <<canonical>> ELSE <<>>

\* one class of getClassCharsets: the filtered set, pushed unless empty
ClassSet(enabled, canonical, excludeAmbiguous, bad) ==
    LET set == IF Truthy(excludeAmbiguous) THEN Without(canonical, bad)
               ELSE canonical
    IN  IF Truthy(enabled) /\ Len(set) > 0 THEN <<set>> ELSE <<>>

\* a getClassCharsets that pushes no class
getClassCharsetsNone(include, excludeAmbiguous) == <<>>

getClassCharsets(include, excludeAmbiguous) ==
    ClassSet(include.lowercase, LOWER, excludeAmbiguous,
             <<"I","l","1","O","0">>)
    \o ClassSet(include.uppercase, UPPER, excludeAmbiguous,
                <<"I","l","1","O","0">>)
    \o ClassSet(include.digits, DIGIT, excludeAmbiguous,
                <<"I","l","1","O","0">>)
    \o ClassSet(include.symbols, SYMBOL, excludeAmbiguous,
                <<"I","l","1","O","0","|">>)

----------------------------------------------------------------------------
(* password.ts: estimateEntropy *)

\* Math.log2 in quarter bits, rounded down: floor(4 * log2(size)), size >= 1
Log2Q(size) ==
    CHOOSE e \in 0..29 :
        /\ 2^e <= size * size * size * size
        /\ size * size * size * size < 2^(e + 1)

\* an estimate that adds where the code multiplies
estimateEntropyAdds(o) ==
    LET norm == normalizePasswordOptions(o)
        charset == buildCharset(norm.include, norm.excludeAmbiguous)
    IN  IF Len(charset) = 0 THEN 0
        ELSE (norm.length.q \div Scale) + Log2Q(Len(charset))

\* normalized.length * Math.log2(charset.length), in quarter bits
estimateEntropy(o) ==
    LET norm == normalizePasswordOptions(o)
        charset == buildCharset(norm.include, norm.excludeAmbiguous)
    IN  IF Len(charset) = 0 THEN 0
        ELSE (norm.length.q \div Scale) * Log2Q(Len(charset))

----------------------------------------------------------------------------
(* The options behaviours: one core call on an arbitrary partial config,  *)
(* and the calls the tests chain after it.                                *)

LengthInputs ==
    {Undefined} \cup
    {NumQ(q) : q \in (-LengthSpan * Scale)..
                     ((PASSWORD_LENGTH_MAX + LengthSpan) * Scale)}

BooleanInputs == {Bool(TRUE), Bool(FALSE)}

\* what a caller bound by the TypeScript types can pass
TypedOptions ==
    [length : LengthInputs,
     include : {Undefined} \cup
               {Include(lo, up, di, sy) :
                    lo \in BooleanInputs, up \in BooleanInputs,
                    di \in BooleanInputs, sy \in BooleanInputs},
     excludeAmbiguous : {Undefined} \cup BooleanInputs,
     requireEachClass : {Undefined} \cup BooleanInputs]

\* what an untyped caller can pass: fields absent, null or of another type
LooseFlagInputs == {Undefined, Str("yes")} \cup BooleanInputs

LooseOptions ==
    [length : {Undefined, Num(2), NumQ(10 * Scale + 1), Num(200)},
     include : {Undefined, Null} \cup
               {Include(lo, up, di, sy) :
                    lo \in LooseFlagInputs, up \in LooseFlagInputs,
                    di \in LooseFlagInputs, sy \in LooseFlagInputs},
     excludeAmbiguous : {Null} \cup LooseFlagInputs,
     requireEachClass : {Null} \cup LooseFlagInputs]

SamplerIdle ==
    /\ setSize = 0
    /\ fed = 0
    /\ tally = <<>>
    /\ rejected = {}

GenIdle ==
    /\ rng = [sequence |-> <<0>>, index |-> 0]
    /\ pc = "idle"
    /\ normalized = Undefined
    /\ unionCharset = <<>>
    /\ classCharsets = <<>>
    /\ password = <<>>
    /\ loopIndex = 0
    /\ remaining = 0
    /\ error = ""

PassIdle ==
    /\ words = <<>>
    /\ passphrase = <<>>
    /\ draws = <<>>

ShuffleIdle ==
    /\ shuffleArray = <<>>
    /\ shuffleInput = <<>>

CompIdle ==
    /\ settings = Undefined
    /\ storage = Null
    /\ clipboard = Null

CallIdle == calls = <<>>

ExtIdle == PassIdle /\ ShuffleIdle /\ CompIdle /\ CallIdle

OptInit ==
    /\ ExtIdle
    /\ options \in TypedOptions \cup LooseOptions
    /\ op = "input"
    /\ ret = Undefined
    /\ prev = Undefined
    /\ SamplerIdle
    /\ GenIdle

\* normalizePasswordOptions(options)
Normalize ==
    /\ UNCHANGED extVars
    /\ op = "input"
    /\ op' = "normalize"
    /\ ret' = normalizePasswordOptions(options)
    /\ UNCHANGED <<options, prev, samplerVars, genVars>>

\* normalizePasswordOptions(normalized1), as the idempotence test chains it
NormalizeAgain ==
    /\ UNCHANGED extVars
    /\ op = "normalize"
    /\ op' = "normalizeAgain"
    /\ prev' = ret
    /\ ret' = normalizePasswordOptions(ret)
    /\ UNCHANGED <<options, samplerVars, genVars>>

\* validatePasswordOptions(normalized), as the property test chains it
ValidateNormalized ==
    /\ UNCHANGED extVars
    /\ op = "normalize"
    /\ op' = "validateNormalized"
    /\ prev' = ret
    /\ ret' = validatePasswordOptions(ret)
    /\ UNCHANGED <<options, samplerVars, genVars>>

\* validatePasswordOptions(options)
Validate ==
    /\ UNCHANGED extVars
    /\ op = "input"
    /\ op' = "validate"
    /\ ret' = validatePasswordOptions(options)
    /\ UNCHANGED <<options, prev, samplerVars, genVars>>

\* estimateEntropy(options), for a config that gives a length
Estimate ==
    /\ UNCHANGED extVars
    /\ op = "input"
    /\ options.length.t = "number"
    /\ op' = "estimate"
    /\ ret' = estimateEntropy(options)
    /\ UNCHANGED <<options, prev, samplerVars, genVars>>

\* estimateEntropy({...options, length: options.length * 2})
EstimateDouble ==
    /\ UNCHANGED extVars
    /\ op = "estimate"
    /\ op' = "estimateDouble"
    /\ prev' = ret
    /\ ret' = estimateEntropy([options EXCEPT !.length = NumQ(2 * @.q)])
    /\ UNCHANGED <<options, samplerVars, genVars>>

OptNext ==
    \/ Normalize
    \/ NormalizeAgain
    \/ ValidateNormalized
    \/ Validate
    \/ Estimate
    \/ EstimateDouble

OptSpec == OptInit /\ [][OptNext]_vars

----------------------------------------------------------------------------
(* random.ts *)

\* The RandomSource of the tests (createTestRng): rng(length) returns the
\* next `length` bytes of a sequence that repeats.  The index is kept modulo
\* the length of the sequence, which is all rng reads of it.
RngRead(r, length) ==
    [j \in 1..length |->
        r.sequence[((r.index + j - 1) % Len(r.sequence)) + 1]]

\* a RandomSource that gives the same bytes again on every call
RngAdvanceStuck(r, length) == r

RngAdvance(r, length) ==
    [r EXCEPT !.index = (@ + length) % Len(r.sequence)]

\* ceil(log2(nn)) for nn >= 1
CeilLog2(nn) == CHOOSE b \in 0..30 : 2^b >= nn /\ (b = 0 \/ 2^(b - 1) < nn)

\* Math.ceil(Math.ceil(Math.log2(n)) / 8), one byte when n <= 256
BytesNeeded(nn) == IF nn <= 256 THEN 1 ELSE (CeilLog2(nn) + 7) \div 8

\* the bytes combined with the first byte lowest
CombineLittleEndian(bytes) ==
    LET RECURSIVE Go(_, _)
        Go(i, value) == IF i < 1 THEN value
                        ELSE Go(i - 1, value * 256 + bytes[i])
    IN  Go(Len(bytes), 0)

\* the bytes combined big-endian
Combine(bytes) ==
    LET RECURSIVE Go(_, _)
        Go(i, value) == IF i > Len(bytes) THEN value
                        ELSE Go(i + 1, value * 256 + bytes[i])
    IN  Go(1, 0)

\* Math.floor(maxValue / n) * n
RejectionLimit(nn) ==
    LET maxValue == 256^BytesNeeded(nn) IN (maxValue \div nn) * nn

\* a sampler that takes the byte modulo n, with no rejection
uniformRandomIndexModuloOnly(r, nn) ==
    [status |-> "return", index |-> Combine(RngRead(r, 1)) % nn,
     rng |-> RngAdvance(r, 1), read |-> 1]

\* a sampler that draws its first byte before it looks at n
uniformRandomIndexDrawsFirst(r, nn) ==
    IF nn <= 0
    THEN [status |-> "throw", index |-> 0, rng |-> RngAdvance(r, 1),
          read |-> 1]
    ELSE IF nn = 1
    THEN [status |-> "return", index |-> 0, rng |-> RngAdvance(r, 1),
          read |-> 1]
    ELSE IF nn <= 256 /\ 256 % nn = 0
    THEN [status |-> "return", index |-> RngRead(r, 1)[1] % nn,
          rng |-> RngAdvance(r, 1), read |-> 1]
    ELSE LET value == Combine(RngRead(r, BytesNeeded(nn)))
         IN  IF value >= RejectionLimit(nn)
             THEN [status |-> "retry", index |-> 0,
                   rng |-> RngAdvance(r, BytesNeeded(nn)),
                   read |-> BytesNeeded(nn)]
             ELSE [status |-> "return", index |-> value % nn,
                   rng |-> RngAdvance(r, BytesNeeded(nn)),
                   read |-> BytesNeeded(nn)]

\* uniformRandomIndex(rng, n) up to the end of one pass of its loop:
\* "throw" (n <= 0), "return" with the index, or "retry" when the value drawn
\* is at or above the limit and the loop draws again; `read` is the number
\* of bytes the pass asked rng for
uniformRandomIndex(r, nn) ==
    IF nn <= 0 THEN [status |-> "throw", index |-> 0, rng |-> r, read |-> 0]
    ELSE IF nn = 1
    THEN [status |-> "return", index |-> 0, rng |-> r, read |-> 0]
    ELSE IF nn <= 256 /\ 256 % nn = 0
    THEN [status |-> "return", index |-> RngRead(r, 1)[1] % nn,
          rng |-> RngAdvance(r, 1), read |-> 1]
    ELSE LET value == Combine(RngRead(r, BytesNeeded(nn)))
         IN  IF value >= RejectionLimit(nn)
             THEN [status |-> "retry", index |-> 0,
                   rng |-> RngAdvance(r, BytesNeeded(nn)),
                   read |-> BytesNeeded(nn)]
             ELSE [status |-> "return", index |-> value % nn,
                   rng |-> RngAdvance(r, BytesNeeded(nn)),
                   read |-> BytesNeeded(nn)]

\* [array[i], array[j]] = [array[j], array[i]], on 0-based positions
SwapOverwrites(array, i, j) == [array EXCEPT ![i + 1] = array[j + 1]]
Swap(array, i, j) ==
    [array EXCEPT ![i + 1] = array[j + 1], ![j + 1] = array[i + 1]]

----------------------------------------------------------------------------
(* The sampler enumeration: every byte value fed as the first byte drawn *)

SamplerInit ==
    /\ ExtIdle
    /\ setSize \in 2..256
    /\ fed = 0
    /\ tally = [i \in 0..(setSize - 1) |-> 0]
    /\ rejected = {}
    /\ options = Undefined
    /\ op = "sampler"
    /\ ret = Undefined
    /\ prev = Undefined
    /\ GenIdle

\* uniformRandomIndex(rng, setSize) where the first byte rng gives is `fed`
FeedByte ==
    /\ UNCHANGED extVars
    /\ op = "sampler"
    /\ fed < 256
    /\ LET step == uniformRandomIndex([sequence |-> <<fed>>, index |-> 0],
                                      setSize)
       IN  /\ tally' = IF step.status = "return"
                       THEN [tally EXCEPT ![step.index] = @ + 1]
                       ELSE tally
           /\ rejected' = IF step.status = "return" THEN rejected
                          ELSE rejected \cup {fed}
    /\ fed' = fed + 1
    /\ UNCHANGED <<setSize, optVars, genVars>>

SamplerNext == FeedByte

SamplerSpec == SamplerInit /\ [][SamplerNext]_vars

----------------------------------------------------------------------------
(* password.ts: generatePassword, one step per pass of a loop *)

\* the byte values the test RandomSource is built from
ByteChoices == {0, 200, 255}

RngSources ==
    {[sequence |-> s, index |-> 0] :
        s \in UNION {[1..p -> ByteChoices] : p \in 1..MaxRngPeriod}}

GenOptions ==
    [length : {Undefined, Num(3), Num(PASSWORD_LENGTH_MIN),
               NumQ(9 * Scale + Scale \div 2)},
     include : {Undefined} \cup
               {Include(lo, up, di, sy) :
                    lo \in BooleanInputs, up \in BooleanInputs,
                    di \in BooleanInputs, sy \in BooleanInputs},
     excludeAmbiguous : {Undefined} \cup BooleanInputs,
     requireEachClass : {Undefined} \cup BooleanInputs]

\* password.join('')
RECURSIVE Join(_)
Join(array) == IF array = <<>> THEN <<>>
               ELSE <<Head(array)>> \o Join(Tail(array))

\* remaining = normalized.length - password.length
FillCountIgnoresPlaced(norm, placed) == norm.length.q \div Scale
FillCount(norm, placed) == (norm.length.q \div Scale) - Len(placed)

GenInit ==
    /\ ExtIdle
    /\ options \in GenOptions
    /\ op = "generatePassword"
    /\ ret = Undefined
    /\ prev = Undefined
    /\ rng \in RngSources
    /\ pc = "start"
    /\ normalized = Undefined
    /\ unionCharset = <<>>
    /\ classCharsets = <<>>
    /\ password = <<>>
    /\ loopIndex = 0
    /\ remaining = 0
    /\ error = ""
    /\ SamplerIdle

\* line 30: unionCharset.length === 0
EmptyCheckMissing(charset) == FALSE
NoCharactersAvailable(charset) == Len(charset) = 0

Throw(message) ==
    /\ pc' = "error"
    /\ error' = message

\* lines 23-45: normalize, build the charsets, the two emptiness checks
Start ==
    /\ UNCHANGED extVars
    /\ pc = "start"
    /\ LET norm == normalizePasswordOptions(options)
           union == buildCharset(norm.include, norm.excludeAmbiguous)
           classes == getClassCharsets(norm.include, norm.excludeAmbiguous)
       IN  /\ normalized' = norm
           /\ unionCharset' = union
           /\ IF NoCharactersAvailable(union)
              THEN /\ Throw("No characters available for password generation")
                   /\ UNCHANGED <<classCharsets, loopIndex, remaining>>
              ELSE IF Truthy(norm.requireEachClass)
              THEN /\ classCharsets' = classes
                   /\ IF Len(classes) = 0
                      THEN /\ Throw("No character classes available")
                           /\ UNCHANGED loopIndex
                      ELSE /\ pc' = "class"
                           /\ loopIndex' = 1
                           /\ UNCHANGED error
                   /\ UNCHANGED remaining
              ELSE /\ pc' = "fill"
                   /\ loopIndex' = 0
                   /\ remaining' = norm.length.q \div Scale
                   /\ UNCHANGED <<classCharsets, error>>
    /\ UNCHANGED <<optVars, samplerVars, rng, password>>

\* lines 48-52: one pass of the sampler's loop for the class at loopIndex
ClassDraw ==
    /\ UNCHANGED extVars
    /\ pc = "class"
    /\ loopIndex <= Len(classCharsets)
    /\ LET charset == classCharsets[loopIndex]
           step == uniformRandomIndex(rng, Len(charset))
       IN  IF Len(charset) = 0
           THEN /\ loopIndex' = loopIndex + 1
                /\ UNCHANGED <<rng, password, pc, error>>
           ELSE /\ rng' = step.rng
                /\ CASE step.status = "throw" ->
                          /\ Throw("n must be positive")
                          /\ UNCHANGED <<password, loopIndex>>
                     [] step.status = "retry" ->
                          UNCHANGED <<password, loopIndex, pc, error>>
                     [] step.status = "return" ->
                          /\ password' = Append(password,
                                                charset[step.index + 1])
                          /\ loopIndex' = loopIndex + 1
                          /\ UNCHANGED <<pc, error>>
    /\ UNCHANGED <<optVars, samplerVars, normalized, unionCharset,
                   classCharsets, remaining>>

\* line 55: the per-class loop is over, count the union draws left
ClassesPlaced ==
    /\ UNCHANGED extVars
    /\ pc = "class"
    /\ loopIndex > Len(classCharsets)
    /\ remaining' = FillCount(normalized, password)
    /\ loopIndex' = 0
    /\ pc' = "fill"
    /\ UNCHANGED <<optVars, samplerVars, rng, normalized, unionCharset,
                   classCharsets, password, error>>

\* lines 56-59 and 62-65: one pass of the sampler's loop for a union draw
FillDraw ==
    /\ UNCHANGED extVars
    /\ pc = "fill"
    /\ loopIndex < remaining
    /\ LET step == uniformRandomIndex(rng, Len(unionCharset))
       IN  /\ rng' = step.rng
           /\ CASE step.status = "throw" ->
                     /\ Throw("n must be positive")
                     /\ UNCHANGED <<password, loopIndex>>
                [] step.status = "retry" ->
                     UNCHANGED <<password, loopIndex, pc, error>>
                [] step.status = "return" ->
                     /\ password' = Append(password,
                                           unionCharset[step.index + 1])
                     /\ loopIndex' = loopIndex + 1
                     /\ UNCHANGED <<pc, error>>
    /\ UNCHANGED <<optVars, samplerVars, normalized, unionCharset,
                   classCharsets, remaining>>

\* line 69 into shuffle, random.ts line 80: i = array.length - 1
Filled ==
    /\ UNCHANGED extVars
    /\ pc = "fill"
    /\ loopIndex >= remaining
    /\ pc' = "shuffle"
    /\ loopIndex' = Len(password) - 1
    /\ UNCHANGED <<optVars, samplerVars, rng, normalized, unionCharset,
                   classCharsets, password, remaining, error>>

\* random.ts lines 80-83: one pass of the sampler's loop for position i
ShuffleStep ==
    /\ UNCHANGED extVars
    /\ pc = "shuffle"
    /\ loopIndex > 0
    /\ LET step == uniformRandomIndex(rng, loopIndex + 1)
       IN  /\ rng' = step.rng
           /\ CASE step.status = "throw" ->
                     /\ Throw("n must be positive")
                     /\ UNCHANGED <<password, loopIndex>>
                [] step.status = "retry" ->
                     UNCHANGED <<password, loopIndex, pc, error>>
                [] step.status = "return" ->
                     /\ password' = Swap(password, loopIndex, step.index)
                     /\ loopIndex' = loopIndex - 1
                     /\ UNCHANGED <<pc, error>>
    /\ UNCHANGED <<optVars, samplerVars, normalized, unionCharset,
                   classCharsets, remaining>>

\* line 71: return password.join('')
Return ==
    /\ UNCHANGED extVars
    /\ pc = "shuffle"
    /\ loopIndex <= 0
    /\ pc' = "done"
    /\ ret' = Join(password)
    /\ UNCHANGED <<options, op, prev, samplerVars, rng, normalized,
                   unionCharset, classCharsets, password, loopIndex,
                   remaining, error>>

GenNext ==
    \/ Start
    \/ ClassDraw
    \/ ClassesPlaced
    \/ FillDraw
    \/ Filled
    \/ ShuffleStep
    \/ Return

GenSpec == GenInit /\ [][GenNext]_vars

----------------------------------------------------------------------------
(* constants.ts, validation.ts: the passphrase options *)

PASSPHRASE_WORD_COUNT_MIN == 3
PASSPHRASE_WORD_COUNT_MAX == 10
DEFAULT_PASSPHRASE_WORD_COUNT == 5
DEFAULT_PASSPHRASE_SEPARATOR == <<"-">>

\* errors.join(sep) on a list of messages
RECURSIVE JoinStrings(_, _)
JoinStrings(list, sep) ==
    IF list = <<>> THEN ""
    ELSE IF Len(list) = 1 THEN list[1]
    ELSE list[1] \o sep \o JoinStrings(Tail(list), sep)

\* a validation that lets every word count through
validatePassphraseOptionsLax(o) == [valid |-> TRUE, errors |-> <<>>]

validatePassphraseOptions(o) ==
    LET wordCount == Coalesce(o.wordCount, Num(5))
        errors ==
            IF ~NumberIsInteger(wordCount.q)
            THEN <<"Word count must be an integer">>
            ELSE IF \/ wordCount.q < PASSPHRASE_WORD_COUNT_MIN * Scale
                    \/ wordCount.q > PASSPHRASE_WORD_COUNT_MAX * Scale
                 THEN <<"Word count must be between "
                        \o ToString(PASSPHRASE_WORD_COUNT_MIN) \o " and "
                        \o ToString(PASSPHRASE_WORD_COUNT_MAX)>>
                 ELSE <<>>
    IN  [valid |-> Len(errors) = 0, errors |-> errors]

\* normalizePassphraseOptions, whose source is not among the files: the word
\* count rounded and clamped as the password length is, and the defaults of
\* the specification's section 4.6 for the fields left out
normalizePassphraseOptions(o) ==
    [wordCount |->
        NumQ(MathMax(PASSPHRASE_WORD_COUNT_MIN * Scale,
                     MathMin(PASSPHRASE_WORD_COUNT_MAX * Scale,
                             MathRound(Coalesce(o.wordCount,
                                 Num(DEFAULT_PASSPHRASE_WORD_COUNT)).q)))),
     separator |-> Coalesce(o.separator, Str(DEFAULT_PASSPHRASE_SEPARATOR)),
     capitalization |-> Coalesce(o.capitalization, Str("none")),
     addDigit |-> Coalesce(o.addDigit, Bool(FALSE)),
     addSymbol |-> Coalesce(o.addSymbol, Bool(FALSE))]

----------------------------------------------------------------------------
(* wordlist.ts, whose source is not among the files: a fixed list of       *)
(* lowercase words without duplicates, of at least 2000 entries.  The word *)
(* at an index is the index written in three letters.                      *)

WORDLIST_LENGTH == 2048

WORDLIST(index) ==
    <<LOWER[((index \div (26 * 26)) % 26) + 1],
      LOWER[((index \div 26) % 26) + 1],
      LOWER[(index % 26) + 1]>>

----------------------------------------------------------------------------
(* passphrase.ts: generatePassphrase, one step per pass of a loop *)

\* c.toUpperCase() for one character
ToUpperCase(c) ==
    IF \E i \in 1..Len(LOWER) : LOWER[i] = c
    THEN UPPER[CHOOSE i \in 1..Len(LOWER) : LOWER[i] = c]
    ELSE c

\* a capitalization that leaves the word as it is
CapitalizeNothing(word) == word
\* word.charAt(0).toUpperCase() + word.slice(1)
Capitalize(word) ==
    IF word = <<>> THEN <<>> ELSE <<ToUpperCase(word[1])>> \o Tail(word)

\* a join that also closes the string with the separator
RECURSIVE JoinWithTrailing(_, _)
JoinWithTrailing(list, sep) ==
    IF list = <<>> THEN <<>>
    ELSE list[1] \o sep \o JoinWithTrailing(Tail(list), sep)

\* words.join(separator)
RECURSIVE JoinWith(_, _)
JoinWith(list, sep) ==
    IF list = <<>> THEN <<>>
    ELSE IF Len(list) = 1 THEN list[1]
    ELSE list[1] \o sep \o JoinWith(Tail(list), sep)

\* a digit block of one digit
AppendOneDigit(text, digit1, digit2) == text \o <<DIGIT[digit1 + 1]>>
\* passphrase += DIGIT[digit1] + DIGIT[digit2]
AppendDigits(text, digit1, digit2) ==
    text \o <<DIGIT[digit1 + 1], DIGIT[digit2 + 1]>>

\* a completed sampler call, as the log of draws keeps it; a pass that
\* redraws is not logged
Call(nn, step) == [n |-> nn, index |-> step.index]

\* the draws after one pass of a call to the sampler over nn
Logged(log, nn, step) ==
    IF step.status = "return" THEN Append(log, Call(nn, step)) ELSE log

\* the index the last completed sampler call returned
LastReturned(log) == log[Len(log)].index

PassphraseInputs ==
    [wordCount : {Undefined, Num(2), Num(PASSPHRASE_WORD_COUNT_MIN),
                  NumQ(5 * Scale + Scale \div 2),
                  Num(PASSPHRASE_WORD_COUNT_MAX), Num(11)},
     separator : {Undefined, Str(<<>>), Str(<<"_">>), Str(<<"-", "-">>)},
     capitalization : {Undefined, Str("none"), Str("first"), Str("random")},
     addDigit : {Undefined} \cup BooleanInputs,
     addSymbol : {Undefined} \cup BooleanInputs]

PassphraseInit ==
    /\ options \in PassphraseInputs
    /\ op = "generatePassphrase"
    /\ ret = Undefined
    /\ prev = Undefined
    /\ rng \in RngSources
    /\ pc = "start"
    /\ normalized = Undefined
    /\ unionCharset = <<>>
    /\ classCharsets = <<>>
    /\ password = <<>>
    /\ loopIndex = 0
    /\ remaining = 0
    /\ error = ""
    /\ SamplerIdle
    /\ ExtIdle

\* lines 119-126: validate, throw on an invalid config, else normalize
PassphraseStart ==
    /\ pc = "start"
    /\ LET validation == validatePassphraseOptions(options)
       IN  IF ~validation.valid
           THEN /\ Throw("Invalid passphrase options: "
                         \o JoinStrings(validation.errors, ", "))
                /\ UNCHANGED <<normalized, loopIndex>>
           ELSE /\ normalized' = normalizePassphraseOptions(options)
                /\ pc' = "words"
                /\ loopIndex' = 0
                /\ UNCHANGED error
    /\ UNCHANGED <<optVars, samplerVars, rng, unionCharset, classCharsets,
                   password, remaining, extVars>>

\* lines 130-133: one pass of the sampler's loop for the word at loopIndex
WordDraw ==
    /\ pc = "words"
    /\ loopIndex < normalized.wordCount.q \div Scale
    /\ LET step == uniformRandomIndex(rng, WORDLIST_LENGTH)
       IN  /\ rng' = step.rng
           /\ draws' = Logged(draws, WORDLIST_LENGTH, step)
           /\ CASE step.status = "throw" ->
                     /\ Throw("n must be positive")
                     /\ UNCHANGED <<words, loopIndex>>
                [] step.status = "retry" ->
                     UNCHANGED <<words, loopIndex, pc, error>>
                [] step.status = "return" ->
                     /\ words' = Append(words, WORDLIST(step.index))
                     /\ loopIndex' = loopIndex + 1
                     /\ UNCHANGED <<pc, error>>
    /\ UNCHANGED <<optVars, samplerVars, normalized, unionCharset,
                   classCharsets, password, remaining, passphrase,
                   shuffleVars, compVars, callVars>>

\* lines 137-142: the words are drawn; 'first'
\* capitalizes every word, 'random' goes on to draw a position
WordsDrawn ==
    /\ pc = "words"
    /\ loopIndex >= normalized.wordCount.q \div Scale
    /\ IF normalized.capitalization = Str("first")
       THEN /\ words' = [i \in 1..Len(words) |-> Capitalize(words[i])]
            /\ pc' = "join"
       ELSE IF normalized.capitalization = Str("random")
       THEN /\ pc' = "capitalize"
            /\ UNCHANGED words
       ELSE /\ pc' = "join"
            /\ UNCHANGED words
    /\ UNCHANGED <<optVars, samplerVars, rng, normalized, unionCharset,
                   classCharsets, password, loopIndex, remaining, error,
                   passphrase, draws, shuffleVars, compVars, callVars>>

\* lines 144-145: one pass of the sampler's loop for the position
CapitalizeDraw ==
    /\ pc = "capitalize"
    /\ LET step == uniformRandomIndex(rng, Len(words))
       IN  /\ rng' = step.rng
           /\ draws' = Logged(draws, Len(words), step)
           /\ CASE step.status = "throw" ->
                     /\ Throw("n must be positive")
                     /\ UNCHANGED words
                [] step.status = "retry" ->
                     UNCHANGED <<words, pc, error>>
                [] step.status = "return" ->
                     /\ words' = [words EXCEPT
                                     ![step.index + 1] = Capitalize(@)]
                     /\ pc' = "join"
                     /\ UNCHANGED error
    /\ UNCHANGED <<optVars, samplerVars, normalized, unionCharset,
                   classCharsets, password, loopIndex, remaining,
                   passphrase, shuffleVars, compVars, callVars>>

\* line 150 and the tests of lines 153 and 160
JoinWords ==
    /\ pc = "join"
    /\ passphrase' = JoinWith(words, normalized.separator.s)
    /\ loopIndex' = 0
    /\ pc' = IF Truthy(normalized.addDigit) THEN "digits"
             ELSE IF Truthy(normalized.addSymbol) THEN "symbol"
             ELSE "return"
    /\ UNCHANGED <<optVars, samplerVars, rng, normalized, unionCharset,
                   classCharsets, password, remaining, error, words, draws,
                   shuffleVars, compVars, callVars>>

\* lines 154-156: one pass of the sampler's loop for digit1, then digit2
DigitDraw ==
    /\ pc = "digits"
    /\ LET step == uniformRandomIndex(rng, Len(DIGIT))
       IN  /\ rng' = step.rng
           /\ draws' = Logged(draws, Len(DIGIT), step)
           /\ CASE step.status = "throw" ->
                     /\ Throw("n must be positive")
                     /\ UNCHANGED <<passphrase, loopIndex>>
                [] step.status = "retry" ->
                     UNCHANGED <<passphrase, loopIndex, pc, error>>
                [] step.status = "return" /\ loopIndex = 0 ->
                     /\ loopIndex' = 1
                     /\ UNCHANGED <<passphrase, pc, error>>
                [] step.status = "return" /\ loopIndex # 0 ->
                     /\ passphrase' = AppendDigits(passphrase,
                                                   LastReturned(draws),
                                                   step.index)
                     /\ loopIndex' = 0
                     /\ pc' = IF Truthy(normalized.addSymbol) THEN "symbol"
                              ELSE "return"
                     /\ UNCHANGED error
    /\ UNCHANGED <<optVars, samplerVars, normalized, unionCharset,
                   classCharsets, password, remaining, words, shuffleVars,
                   compVars, callVars>>

\* lines 161-162: one pass of the sampler's loop for the symbol
SymbolDraw ==
    /\ pc = "symbol"
    /\ LET step == uniformRandomIndex(rng, Len(SYMBOL))
       IN  /\ rng' = step.rng
           /\ draws' = Logged(draws, Len(SYMBOL), step)
           /\ CASE step.status = "throw" ->
                     /\ Throw("n must be positive")
                     /\ UNCHANGED passphrase
                [] step.status = "retry" ->
                     UNCHANGED <<passphrase, pc, error>>
                [] step.status = "return" ->
                     /\ passphrase' = passphrase
                                      \o <<SYMBOL[step.index + 1]>>
                     /\ pc' = "return"
                     /\ UNCHANGED error
    /\ UNCHANGED <<optVars, samplerVars, normalized, unionCharset,
                   classCharsets, password, loopIndex, remaining, words,
                   shuffleVars, compVars, callVars>>

\* line 165: return passphrase
PassphraseReturn ==
    /\ pc = "return"
    /\ pc' = "done"
    /\ ret' = passphrase
    /\ UNCHANGED <<options, op, prev, samplerVars, rng, normalized,
                   unionCharset, classCharsets, password, loopIndex,
                   remaining, error, extVars>>

PassphraseNext ==
    \/ PassphraseStart
    \/ WordDraw
    \/ WordsDrawn
    \/ CapitalizeDraw
    \/ JoinWords
    \/ DigitDraw
    \/ SymbolDraw
    \/ PassphraseReturn

PassphraseSpec == PassphraseInit /\ [][PassphraseNext]_vars

----------------------------------------------------------------------------
(* random.ts: shuffle on its own, one step per pass of the sampler's loop *)

\* arrays of up to MaxShuffleLen elements are shuffled
MaxShuffleLen == 4

\* the arrays shuffled: 1..len in order, and every array over two values
ShuffleInputs ==
    {[k \in 1..len |-> k] : len \in 0..MaxShuffleLen}
    \cup UNION {[1..len -> {1, 2}] : len \in 0..MaxShuffleLen}

\* the RandomSource cycles through MaxShuffleLen - 1 bytes, each small enough
\* to name any position, or 255
ShuffleRngSources ==
    {[sequence |-> s, index |-> 0] :
        s \in [1..(MaxShuffleLen - 1) -> (0..(MaxShuffleLen - 1)) \cup {255}]}

\* a shuffle that draws every position over the whole array
ShuffleBoundWholeArray(i, length) == length
\* line 81: the n of uniformRandomIndex(rng, i + 1)
ShuffleBound(i, length) == i + 1

ShuffleInit ==
    /\ shuffleInput \in ShuffleInputs
    /\ shuffleArray = shuffleInput
    /\ rng \in ShuffleRngSources
    /\ op = "shuffle"
    /\ pc = "start"
    /\ options = Undefined
    /\ ret = Undefined
    /\ prev = Undefined
    /\ normalized = Undefined
    /\ unionCharset = <<>>
    /\ classCharsets = <<>>
    /\ password = <<>>
    /\ loopIndex = 0
    /\ remaining = 0
    /\ error = ""
    /\ SamplerIdle
    /\ PassIdle
    /\ CompIdle
    /\ CallIdle

\* line 80: let i = array.length - 1
ShuffleEnter ==
    /\ pc = "start"
    /\ loopIndex' = Len(shuffleArray) - 1
    /\ pc' = "loop"
    /\ UNCHANGED <<optVars, samplerVars, rng, normalized, unionCharset,
                   classCharsets, password, remaining, error, extVars>>

\* lines 80-83: one pass of the sampler's loop for position i, and the swap
ShuffleDraw ==
    /\ pc = "loop"
    /\ loopIndex > 0
    /\ LET bound == ShuffleBound(loopIndex, Len(shuffleArray))
           step == uniformRandomIndex(rng, bound)
       IN  /\ rng' = step.rng
           /\ draws' = Logged(draws, bound, step)
           /\ CASE step.status = "throw" ->
                     /\ Throw("n must be positive")
                     /\ UNCHANGED <<shuffleArray, loopIndex>>
                [] step.status = "retry" ->
                     UNCHANGED <<shuffleArray, loopIndex, pc, error>>
                [] step.status = "return" ->
                     /\ shuffleArray' = Swap(shuffleArray, loopIndex,
                                             step.index)
                     /\ loopIndex' = loopIndex - 1
                     /\ UNCHANGED <<pc, error>>
    /\ UNCHANGED <<optVars, samplerVars, normalized, unionCharset,
                   classCharsets, password, remaining, words, passphrase,
                   shuffleInput, compVars, callVars>>

\* line 84: the loop is over, shuffle returns
ShuffleReturn ==
    /\ pc = "loop"
    /\ loopIndex <= 0
    /\ pc' = "done"
    /\ UNCHANGED <<optVars, samplerVars, rng, normalized, unionCharset,
                   classCharsets, password, loopIndex, remaining, error,
                   extVars>>

ShuffleNext == ShuffleEnter \/ ShuffleDraw \/ ShuffleReturn

ShuffleSpec == ShuffleInit /\ [][ShuffleNext]_vars

----------------------------------------------------------------------------
(* components/PasswordGenerator.tsx: the stored settings and the events of *)
(* the component.  Strings are held whole here: Str("passphrase").  A      *)
(* JSON object is a record of its keys with t = "object"; the item in      *)
(* localStorage is its text, or Null when there is none.                   *)

\* JSON.stringify(value), for a value without undefined or non-finite parts
JSONStringify(value) == [t |-> "text", kind |-> "json", value |-> value]
\* texts JSON.parse throws on, and the empty string
MalformedText == [t |-> "text", kind |-> "malformed", value |-> Null]
EmptyText == [t |-> "text", kind |-> "empty", value |-> Null]

Obj(keys) == [t |-> "object"] @@ keys

defaultSettings ==
    Obj([mode |-> Str("password"),
         length |-> Num(DEFAULT_PASSWORD_LENGTH),
         include |-> Include(Bool(TRUE), Bool(TRUE), Bool(TRUE), Bool(FALSE)),
         excludeAmbiguous |-> Bool(TRUE),
         requireEachClass |-> Bool(TRUE),
         wordCount |-> Num(DEFAULT_PASSPHRASE_WORD_COUNT),
         separator |-> Str(JoinStrings(DEFAULT_PASSPHRASE_SEPARATOR, "")),
         capitalization |-> Str("none"),
         addDigit |-> Bool(FALSE),
         addSymbol |-> Bool(FALSE)])

\* value.key on a value that is neither null nor undefined
Get(value, key) ==
    IF value.t = "object"
    THEN IF key \in DOMAIN value THEN value[key] ELSE Undefined
    ELSE IF value.t = "string" /\ key = "length" THEN Num(Len(value.s))
    ELSE Undefined

\* value?.key
OptionalGet(value, key) ==
    IF value.t \in {"undefined", "null"} THEN Undefined ELSE Get(value, key)

parseStoredLength(value) ==
    IF value.t = "number" /\ NumberIsInteger(value.q)
    THEN NumQ(MathMax(8 * Scale, MathMin(128 * Scale, value.q)))
    ELSE defaultSettings.length

parseStoredWordCount(value) ==
    IF value.t = "number" /\ NumberIsInteger(value.q)
    THEN NumQ(MathMax(3 * Scale, MathMin(10 * Scale, value.q)))
    ELSE defaultSettings.wordCount

\* a parse that coerces where the code tests the type
parseStoredBooleanCoerces(value, fallback) == Bool(Truthy(value))
parseStoredBoolean(value, fallback) ==
    IF value.t = "boolean" THEN value ELSE fallback

parseStoredSeparator(value) ==
    IF value.t = "string" THEN value ELSE defaultSettings.separator

\* lines 86-135, for the item getItem returned; an item that is null or
\* empty, a text JSON.parse throws on, and a parsed null (reading parsed.mode
\* throws) all end in `return defaultSettings`
loadSettings(item) ==
    IF item = Null \/ item.kind # "json" \/ item.value = Null
    THEN defaultSettings
    ELSE LET parsed == item.value
             include == Get(parsed, "include")
             Flag(key) == parseStoredBoolean(OptionalGet(include, key),
                                             defaultSettings.include[key])
         IN  Obj([mode |-> IF Get(parsed, "mode") = Str("passphrase")
                           THEN Str("passphrase") ELSE Str("password"),
                  length |-> parseStoredLength(Get(parsed, "length")),
                  include |-> Include(Flag("lowercase"), Flag("uppercase"),
                                      Flag("digits"), Flag("symbols")),
                  excludeAmbiguous |->
                      parseStoredBoolean(Get(parsed, "excludeAmbiguous"),
                                         defaultSettings.excludeAmbiguous),
                  requireEachClass |->
                      parseStoredBoolean(Get(parsed, "requireEachClass"),
                                         defaultSettings.requireEachClass),
                  wordCount |->
                      parseStoredWordCount(Get(parsed, "wordCount")),
                  separator |->
                      parseStoredSeparator(Get(parsed, "separator")),
                  capitalization |->
                      IF Get(parsed, "capitalization")
                            \in {Str("none"), Str("first"), Str("random")}
                      THEN Get(parsed, "capitalization")
                      ELSE defaultSettings.capitalization,
                  addDigit |-> parseStoredBoolean(Get(parsed, "addDigit"),
                                                  defaultSettings.addDigit),
                  addSymbol |-> parseStoredBoolean(Get(parsed, "addSymbol"),
                                                   defaultSettings.addSymbol)])

\* a save that puts the generated secret beside the settings
saveSettingsWithSecret(s) == JSONStringify(Obj([secret |-> Str(password)]) @@ s)
\* lines 137-144: the item setItem stores
saveSettings(s) == JSONStringify(s)

\* lines 157-195: the strings generate() may pass to setPassword; none when
\* the core throws, which generatePassword does on an empty charset
Generated(s) ==
    IF s.mode = Str("passphrase") THEN {"able-acid-aged"}
    ELSE IF buildCharset(s.include, s.excludeAmbiguous) = <<>> THEN {}
    ELSE {"k7Qm2xWz", "Tn4LgPv9"}

\* the values a stored key is tried with: well-formed, wrong-typed and out
\* of range
StoredChoices ==
    [mode |-> {Str("passphrase"), Str("banana")},
     length |-> {Num(16), Num(1000), Num(-5), Str("16"),
                 NumQ(9 * Scale + Scale \div 2)},
     include |-> {Null, Obj([lowercase |-> Bool(FALSE)]),
                  Obj([lowercase |-> Str("false")]),
                  Include(Bool(FALSE), Bool(TRUE), Bool(FALSE), Bool(TRUE)),
                  Include(Bool(FALSE), Bool(FALSE), Bool(FALSE),
                          Bool(FALSE))},
     excludeAmbiguous |-> {Bool(FALSE), Str("false")},
     requireEachClass |-> {Bool(FALSE), Null},
     wordCount |-> {Num(6), Num(-5), NumQ(4 * Scale + Scale \div 2)},
     separator |-> {Str("_"), Str(""), Num(123)},
     capitalization |-> {Str("first"), Str("uppercase")},
     addDigit |-> {Bool(TRUE), Str("false")},
     addSymbol |-> {Bool(TRUE)}]

\* the objects with the keys in present, each with one of its choices
ObjectsOver(present) ==
    {Obj(keys) : keys \in
        {g \in [present -> UNION {StoredChoices[key] :
                                     key \in DOMAIN StoredChoices}] :
            \A key \in present : g[key] \in StoredChoices[key]}}

\* what localStorage may hold when the component mounts: nothing, a text
\* that is no JSON, JSON that is no object, objects with at most two keys,
\* the object of the test 'accepts valid stored values', and an object with
\* only a length, for every length
StoredItems ==
    {Null, EmptyText, MalformedText}
    \cup {JSONStringify(value) :
             value \in {Null, Num(42), Str("abcdefghijkl")}}
    \cup {JSONStringify(value) :
             value \in UNION {ObjectsOver(present) :
                                 present \in {keys \in SUBSET DOMAIN
                                     StoredChoices : Cardinality(keys) <= 2}}}
    \cup {JSONStringify(
             Obj([mode |-> Str("passphrase"), length |-> Num(16),
                  include |-> Include(Bool(FALSE), Bool(TRUE), Bool(FALSE),
                                      Bool(TRUE)),
                  excludeAmbiguous |-> Bool(FALSE),
                  requireEachClass |-> Bool(FALSE), wordCount |-> Num(6),
                  separator |-> Str("_"), capitalization |-> Str("first"),
                  addDigit |-> Bool(TRUE), addSymbol |-> Bool(TRUE)]))}
    \cup {JSONStringify(Obj([length |-> value])) :
             value \in LengthInputs \ {Undefined}}

ComponentInit ==
    /\ storage \in StoredItems
    /\ settings = Undefined
    /\ clipboard = Null
    /\ password = ""
    /\ op = "component"
    /\ pc = "unmounted"
    /\ options = Undefined
    /\ ret = Undefined
    /\ prev = Undefined
    /\ rng = [sequence |-> <<0>>, index |-> 0]
    /\ normalized = Undefined
    /\ unionCharset = <<>>
    /\ classCharsets = <<>>
    /\ loopIndex = 0
    /\ remaining = 0
    /\ error = ""
    /\ SamplerIdle
    /\ PassIdle
    /\ ShuffleIdle
    /\ CallIdle

\* lines 197-205: the effects that run after a render with new settings:
\* saveSettings(settings), then generate() when a setting it reads changed
Effects(before, after) ==
    /\ storage' = saveSettings(after)
    /\ IF before = after \/ Generated(after) = {}
       THEN UNCHANGED password
       ELSE password' \in Generated(after)

\* lines 146-148: useState(loadSettings), and the effects of the first render
Mount ==
    /\ pc = "unmounted"
    /\ pc' = "mounted"
    /\ prev' = storage
    /\ ret' = loadSettings(storage)
    /\ settings' = loadSettings(storage)
    /\ Effects(settings, loadSettings(storage))
    /\ UNCHANGED <<options, op, samplerVars, rng, normalized, unionCharset,
                   classCharsets, loopIndex, remaining, error, passVars,
                   shuffleVars, clipboard, callVars>>

ComponentIdleVars ==
    <<optVars, samplerVars, rng, pc, normalized, unionCharset, classCharsets,
      loopIndex, remaining, error, passVars, shuffleVars, callVars>>

\* lines 233-238: updateSetting(key, value), from the mode buttons, the 'm'
\* key and the length slider
UpdateSetting ==
    /\ pc = "mounted"
    /\ \E key \in {"mode", "length"} :
       \E value \in IF key = "mode"
                    THEN {Str("password"), Str("passphrase")}
                    ELSE {Num(PASSWORD_LENGTH_MAX)} :
          /\ settings' = [settings EXCEPT ![key] = value]
          /\ Effects(settings, settings')
    /\ UNCHANGED <<ComponentIdleVars, clipboard>>

\* lines 240-249: updateInclude(key, value), from a checkbox or the 's' key;
\* the uppercase and symbols boxes stand for the four, and unchecking them
\* disables every class once settings with only those two were loaded
UpdateInclude ==
    /\ pc = "mounted"
    /\ \E key \in {"uppercase", "symbols"} :
          /\ settings' = [settings EXCEPT
                             !.include[key] = Bool(~settings.include[key].b)]
          /\ Effects(settings, settings')
    /\ UNCHANGED <<ComponentIdleVars, clipboard>>

\* lines 157-195: generate(), from the button or the 'g' key
Generate ==
    /\ pc = "mounted"
    /\ Generated(settings) # {}
    /\ password' \in Generated(settings)
    /\ UNCHANGED <<ComponentIdleVars, settings, storage, clipboard>>

\* lines 207-231: handleCopy(), by clipboard.writeText or the textarea
HandleCopy ==
    /\ pc = "mounted"
    /\ password # ""
    /\ clipboard' = Str(password)
    /\ UNCHANGED <<ComponentIdleVars, settings, storage, password>>

ComponentNext ==
    \/ Mount
    \/ UpdateSetting
    \/ UpdateInclude
    \/ Generate
    \/ HandleCopy

ComponentSpec == ComponentInit /\ [][ComponentNext]_vars

----------------------------------------------------------------------------
(* random.ts: one uniformRandomIndex call, one step per pass of its loop *)

\* the passes counted; the count stays at this bound once it is reached
MaxPasses == 3

\* n: not positive, 1, a divisor of 256, not a divisor, and above 256
IndexSizes == {-1, 0, 1, 2, 3, 25, 256, 257}

\* bytes below, at and above the limit 250 of n = 25
IndexBytes == {0, 249, 250, 255}

IndexRngSources ==
    {[sequence |-> s, index |-> 0] :
        s \in UNION {[1..p -> IndexBytes] : p \in 1..MaxRngPeriod}}

IndexInit ==
    /\ ExtIdle
    /\ setSize \in IndexSizes
    /\ fed = 0
    /\ tally = <<>>
    /\ rejected = {}
    /\ options = Undefined
    /\ op = "uniformRandomIndex"
    /\ ret = Undefined
    /\ rng \in IndexRngSources
    /\ prev = rng
    /\ pc = "call"
    /\ normalized = Undefined
    /\ unionCharset = <<>>
    /\ classCharsets = <<>>
    /\ password = <<>>
    /\ loopIndex = 0
    /\ remaining = 0
    /\ error = ""

\* lines 24-70: one pass of uniformRandomIndex(rng, setSize); `fed` is the
\* number of bytes the pass asked rng for, `loopIndex` the passes made, and
\* `prev` the RandomSource as the caller handed it over
IndexPass ==
    /\ op = "uniformRandomIndex"
    /\ pc = "call"
    /\ LET step == uniformRandomIndex(rng, setSize)
       IN  /\ rng' = step.rng
           /\ fed' = step.read
           /\ loopIndex' = MathMin(loopIndex + 1, MaxPasses)
           /\ CASE step.status = "throw" ->
                     /\ Throw("n must be positive")
                     /\ UNCHANGED ret
                [] step.status = "retry" ->
                     UNCHANGED <<pc, error, ret>>
                [] step.status = "return" ->
                     /\ pc' = "done"
                     /\ ret' = Num(step.index)
                     /\ UNCHANGED error
    /\ UNCHANGED <<options, op, prev, setSize, tally, rejected, normalized,
                   unionCharset, classCharsets, password, remaining,
                   extVars>>

IndexNext == IndexPass

IndexSpec == IndexInit /\ [][IndexNext]_vars

\* a call that has started a pass goes on to the end of the pass
IndexLiveSpec == IndexSpec /\ WF_vars(IndexPass)

----------------------------------------------------------------------------
(* random.ts: the blocks of uniformRandomIndex for n above 256, fed in order *)

\* n: the least to need two bytes, one in between, the greatest for two
\* bytes and the least to need three
BlockSizes == {257, 1000, 65536, 65537}

\* the tally of returned indices is kept for n up to this bound
MaxTallied == 1000

\* of the three-byte blocks, this many at the start, on either side of the
\* limit and at the end are fed
Window == 64

\* the number of bytes of a block that covers n, for n in 257..256^3
BlockBytes(nn) == IF nn <= 256 * 256 THEN 2 ELSE 3

BlockCount(nn) == IF BlockBytes(nn) = 2 THEN 256 * 256 ELSE 4 * Window

\* the value of the i-th block fed, from 0
BlockValue(nn, i) ==
    LET limit == ((256 ^ BlockBytes(nn)) \div nn) * nn
    IN  IF BlockBytes(nn) = 2 \/ i < Window THEN i
        ELSE IF i < 3 * Window THEN limit - 2 * Window + i
        ELSE (256 ^ BlockBytes(nn)) - 4 * Window + i

\* the bytes rng gives for a block value, highest byte first
ToBytes(value, length) ==
    [j \in 1..length |-> (value \div (256 ^ (length - j))) % 256]

BlockInit ==
    /\ ExtIdle
    /\ GenIdle
    /\ setSize \in BlockSizes
    /\ fed = 0
    /\ tally = IF setSize <= MaxTallied THEN [i \in 0..(setSize - 1) |-> 0]
               ELSE <<>>
    /\ rejected = {}
    /\ options = Undefined
    /\ op = "blocks"
    /\ ret = Undefined
    /\ prev = Undefined

\* uniformRandomIndex(rng, setSize) where the first block rng gives is the
\* block numbered `fed`
FeedBlock ==
    /\ op = "blocks"
    /\ fed < BlockCount(setSize)
    /\ LET value == BlockValue(setSize, fed)
           step == uniformRandomIndex(
                       [sequence |-> ToBytes(value, BlockBytes(setSize)),
                        index |-> 0], setSize)
       IN  /\ tally' = IF setSize <= MaxTallied /\ step.status = "return"
                       THEN [tally EXCEPT ![step.index] = @ + 1]
                       ELSE tally
           /\ rejected' = IF step.status = "return" THEN rejected
                          ELSE rejected \cup {value}
           /\ ret' = [status |-> step.status, index |-> step.index,
                      read |-> step.read]
    /\ fed' = fed + 1
    /\ UNCHANGED <<options, op, prev, setSize, genVars, extVars>>

BlockNext == FeedBlock

BlockSpec == BlockInit /\ [][BlockNext]_vars

----------------------------------------------------------------------------
(* password.ts and passphrase.ts: generation calls that run interleaved.   *)
(* A call is the record of its locals; a step of a call is the step the    *)
(* actions of generatePassword and generatePassphrase above take, written  *)
(* as a function of those locals.                                          *)

\* the steps a call run on its own is followed for
MaxSteps == 64

\* the locals of a call that has not started; source is the RandomSource as
\* the caller handed it over
NewCall(kind, o, r) ==
    [kind |-> kind, options |-> o, source |-> r, rng |-> r, pc |-> "start",
     normalized |-> Undefined, unionCharset |-> <<>>,
     classCharsets |-> <<>>, password |-> <<>>, loopIndex |-> 0,
     remaining |-> 0, error |-> "", ret |-> Undefined, words |-> <<>>,
     passphrase |-> <<>>, draws |-> <<>>]

Thrown(c, message) == [c EXCEPT !.pc = "error", !.error = message]

\* the call after one pass of the sampler's loop: thrown, drawing again, or
\* gone on as `placed`
Drawn(c, step, placed) ==
    CASE step.status = "throw" ->
            [Thrown(c, "n must be positive") EXCEPT !.rng = step.rng]
      [] step.status = "retry" -> [c EXCEPT !.rng = step.rng]
      [] step.status = "return" -> [placed EXCEPT !.rng = step.rng]

\* password.ts lines 18-72: one step of generatePassword
PasswordStep(c) ==
    CASE c.pc = "start" ->
            LET norm == normalizePasswordOptions(c.options)
                union == buildCharset(norm.include, norm.excludeAmbiguous)
                classes == getClassCharsets(norm.include,
                                            norm.excludeAmbiguous)
                begun == [c EXCEPT !.normalized = norm,
                                   !.unionCharset = union]
            IN  IF NoCharactersAvailable(union)
                THEN Thrown(begun,
                         "No characters available for password generation")
                ELSE IF Truthy(norm.requireEachClass)
                THEN IF Len(classes) = 0
                     THEN Thrown([begun EXCEPT !.classCharsets = classes],
                                 "No character classes available")
                     ELSE [begun EXCEPT !.classCharsets = classes,
                                        !.pc = "class", !.loopIndex = 1]
                ELSE [begun EXCEPT !.pc = "fill", !.loopIndex = 0,
                                   !.remaining = norm.length.q \div Scale]
      [] c.pc = "class" /\ c.loopIndex <= Len(c.classCharsets) ->
            LET charset == c.classCharsets[c.loopIndex]
                step == uniformRandomIndex(c.rng, Len(charset))
            IN  IF Len(charset) = 0 THEN [c EXCEPT !.loopIndex = @ + 1]
                ELSE Drawn(c, step,
                           [c EXCEPT !.password =
                                         Append(@, charset[step.index + 1]),
                                     !.loopIndex = @ + 1])
      [] c.pc = "class" /\ c.loopIndex > Len(c.classCharsets) ->
            [c EXCEPT !.remaining = FillCount(c.normalized, c.password),
                      !.loopIndex = 0, !.pc = "fill"]
      [] c.pc = "fill" /\ c.loopIndex < c.remaining ->
            LET step == uniformRandomIndex(c.rng, Len(c.unionCharset))
            IN  Drawn(c, step,
                      [c EXCEPT !.password =
                                    Append(@, c.unionCharset[step.index + 1]),
                                !.loopIndex = @ + 1])
      [] c.pc = "fill" /\ c.loopIndex >= c.remaining ->
            [c EXCEPT !.pc = "shuffle", !.loopIndex = Len(c.password) - 1]
      [] c.pc = "shuffle" /\ c.loopIndex > 0 ->
            LET step == uniformRandomIndex(c.rng, c.loopIndex + 1)
            IN  Drawn(c, step,
                      [c EXCEPT !.password =
                                    Swap(@, c.loopIndex, step.index),
                                !.loopIndex = @ - 1])
      [] c.pc = "shuffle" /\ c.loopIndex <= 0 ->
            [c EXCEPT !.pc = "done", !.ret = Join(c.password)]
      [] OTHER -> c

\* passphrase.ts: one step of generatePassphrase
PassphraseStep(c) ==
    CASE c.pc = "start" ->
            LET validation == validatePassphraseOptions(c.options)
            IN  IF ~validation.valid
                THEN Thrown(c, "Invalid passphrase options: "
                               \o JoinStrings(validation.errors, ", "))
                ELSE [c EXCEPT !.normalized =
                                   normalizePassphraseOptions(c.options),
                               !.pc = "words", !.loopIndex = 0]
      [] c.pc = "words" /\ c.loopIndex < c.normalized.wordCount.q \div Scale ->
            LET step == uniformRandomIndex(c.rng, WORDLIST_LENGTH)
                logged == [c EXCEPT !.draws =
                                        Logged(@, WORDLIST_LENGTH, step)]
            IN  Drawn(logged, step,
                      [logged EXCEPT !.words =
                                         Append(@, WORDLIST(step.index)),
                                     !.loopIndex = @ + 1])
      [] c.pc = "words" /\ c.loopIndex >= c.normalized.wordCount.q \div Scale ->
            IF c.normalized.capitalization = Str("first")
            THEN [c EXCEPT !.words = [i \in 1..Len(c.words) |->
                                         Capitalize(c.words[i])],
                           !.pc = "join"]
            ELSE IF c.normalized.capitalization = Str("random")
            THEN [c EXCEPT !.pc = "capitalize"]
            ELSE [c EXCEPT !.pc = "join"]
      [] c.pc = "capitalize" ->
            LET step == uniformRandomIndex(c.rng, Len(c.words))
                logged == [c EXCEPT !.draws = Logged(@, Len(c.words), step)]
            IN  Drawn(logged, step,
                      [logged EXCEPT !.words[step.index + 1] = Capitalize(@),
                                     !.pc = "join"])
      [] c.pc = "join" ->
            [c EXCEPT !.passphrase =
                          JoinWith(c.words, c.normalized.separator.s),
                      !.loopIndex = 0,
                      !.pc = IF Truthy(c.normalized.addDigit) THEN "digits"
                             ELSE IF Truthy(c.normalized.addSymbol)
                             THEN "symbol"
                             ELSE "return"]
      [] c.pc = "digits" ->
            LET step == uniformRandomIndex(c.rng, Len(DIGIT))
                logged == [c EXCEPT !.draws = Logged(@, Len(DIGIT), step)]
            IN  IF c.loopIndex = 0
                THEN Drawn(logged, step, [logged EXCEPT !.loopIndex = 1])
                ELSE Drawn(logged, step,
                           [logged EXCEPT
                               !.passphrase =
                                   AppendDigits(@, LastReturned(c.draws),
                                                step.index),
                               !.loopIndex = 0,
                               !.pc = IF Truthy(c.normalized.addSymbol)
                                      THEN "symbol" ELSE "return"])
      [] c.pc = "symbol" ->
            LET step == uniformRandomIndex(c.rng, Len(SYMBOL))
                logged == [c EXCEPT !.draws = Logged(@, Len(SYMBOL), step)]
            IN  Drawn(logged, step,
                      [logged EXCEPT !.passphrase =
                                         @ \o <<SYMBOL[step.index + 1]>>,
                                     !.pc = "return"])
      [] c.pc = "return" -> [c EXCEPT !.pc = "done", !.ret = c.passphrase]
      [] OTHER -> c

GenerateStep(c) ==
    IF c.kind = "generatePassword" THEN PasswordStep(c)
    ELSE PassphraseStep(c)

\* the call has returned or thrown
Finished(c) == c.pc \in {"done", "error"}

\* the call run on its own, for at most `fuel` steps
RECURSIVE Run(_, _)
Run(c, fuel) ==
    IF Finished(c) \/ fuel = 0 THEN c ELSE Run(GenerateStep(c), fuel - 1)

\* a step reads locals that another call wrote: one password buffer for all
LocalsWithSharedBuffer(all, i) ==
    [all[i] EXCEPT !.password = all[1].password]

\* the state a step of call i reads: the locals of that call, nothing else
Locals(all, i) == all[i]

\* configs of the calls: a password of each class, one of two classes
\* without requireEachClass, one with no class; a passphrase with every
\* draw, one with a word count that is rejected
ConcurrentPasswordOptions ==
    {[length |-> Num(PASSWORD_LENGTH_MIN), include |-> Undefined,
      excludeAmbiguous |-> Undefined, requireEachClass |-> Undefined],
     [length |-> Num(PASSWORD_LENGTH_MIN),
      include |-> Include(Bool(FALSE), Bool(TRUE), Bool(FALSE), Bool(TRUE)),
      excludeAmbiguous |-> Bool(FALSE), requireEachClass |-> Bool(FALSE)],
     [length |-> Undefined,
      include |-> Include(Bool(FALSE), Bool(FALSE), Bool(FALSE),
                          Bool(FALSE)),
      excludeAmbiguous |-> Undefined, requireEachClass |-> Undefined]}

ConcurrentPassphraseOptions ==
    {[wordCount |-> Num(PASSPHRASE_WORD_COUNT_MIN), separator |-> Undefined,
      capitalization |-> Str("random"), addDigit |-> Bool(TRUE),
      addSymbol |-> Bool(TRUE)],
     [wordCount |-> Num(2), separator |-> Undefined,
      capitalization |-> Undefined, addDigit |-> Undefined,
      addSymbol |-> Undefined]}

\* RandomSources: one that never makes a call draw again, one that does
\* and one that gives the byte 255 alone
ConcurrentRngSources ==
    {[sequence |-> <<0>>, index |-> 0],
     [sequence |-> <<255, 200>>, index |-> 0],
     [sequence |-> <<255>>, index |-> 0]}

CallInputs ==
    {NewCall("generatePassword", o, r) :
        o \in ConcurrentPasswordOptions, r \in ConcurrentRngSources}
    \cup {NewCall("generatePassphrase", o, r) :
             o \in ConcurrentPassphraseOptions, r \in ConcurrentRngSources}

ConcurrentInit ==
    /\ calls \in [{1, 2} -> CallInputs]
    /\ options = Undefined
    /\ op = "concurrent"
    /\ ret = Undefined
    /\ prev = Undefined
    /\ SamplerIdle
    /\ GenIdle
    /\ PassIdle
    /\ ShuffleIdle
    /\ CompIdle

\* call i takes its next step while the other calls stand where they are
StepCall(i) ==
    /\ op = "concurrent"
    /\ ~Finished(calls[i])
    /\ calls' = [calls EXCEPT ![i] = GenerateStep(Locals(calls, i))]
    /\ UNCHANGED <<optVars, samplerVars, genVars, passVars, shuffleVars,
                   compVars>>

ConcurrentNext == \E i \in {1, 2} : StepCall(i)

ConcurrentSpec == ConcurrentInit /\ [][ConcurrentNext]_vars

----------------------------------------------------------------------------
(* Properties *)

Range(s) == {s[i] : i \in 1..Len(s)}

\* the flags of the class selection generatePassword resolved
EnabledClasses(norm) ==
    {f \in {"lowercase", "uppercase", "digits", "symbols"} :
        Truthy(norm.include[f])}

Canonical(f) ==
    CASE f = "lowercase" -> LOWER
      [] f = "uppercase" -> UPPER
      [] f = "digits" -> DIGIT
      [] f = "symbols" -> SYMBOL

\* C1: for every n in 2..256, over the 256 byte values fed as the first byte
\* drawn, every index 0..n-1 is returned exactly floor(256/n) times, the bytes
\* at or above floor(256/n)*n (and only those) are never mapped to an index,
\* and no byte is rejected when n divides 256.
C1_ZeroResidualBias ==
    op = "sampler" =>
        /\ rejected = {b \in 0..(fed - 1) : b >= (256 \div setSize) * setSize}
        /\ fed = 256 =>
              /\ \A i \in 0..(setSize - 1) : tally[i] = 256 \div setSize
              /\ DOMAIN tally = 0..(setSize - 1)
              /\ (256 % setSize = 0 => rejected = {})

\* C1 witness: all 256 bytes fed for n = 25, six of them rejected
C1_Witness ==
    /\ op = "sampler" /\ fed = 256 /\ setSize = 25
    /\ Cardinality(rejected) = 6
    /\ tally[24] = 10

\* C2: whenever the resolved class selection enables a class, generatePassword
\* throws nothing, and the string it returns has the normalized length.
C2_LengthIsNormalizedLength ==
    op = "generatePassword" =>
        /\ (pc = "done" =>
               Len(ret) * Scale = normalizePasswordOptions(options).length.q)
        /\ (EnabledClasses(normalizePasswordOptions(options)) # {} =>
               pc # "error")

\* C2 witness: a call with length 3, below the minimum, returned 8 characters
\* under requireEachClass with all four classes
C2_Witness ==
    /\ pc = "done"
    /\ options.length = Num(3)
    /\ Len(ret) = 8
    /\ Truthy(normalized.requireEachClass)
    /\ Len(classCharsets) = 4

\* C3: with requireEachClass resolved to true and a class enabled, the string
\* returned holds a character of the canonical set of every enabled class.
C3_EveryEnabledClassPresent ==
    (pc = "done" /\ Truthy(normalized.requireEachClass)) =>
        \A f \in EnabledClasses(normalized) :
            Range(ret) \cap Range(Canonical(f)) # {}

\* C3 witness: a returned string under requireEachClass, four classes and
\* excludeAmbiguous, whose shuffle moved a class character
C3_Witness ==
    /\ pc = "done"
    /\ Truthy(normalized.requireEachClass)
    /\ Truthy(normalized.excludeAmbiguous)
    /\ Cardinality(EnabledClasses(normalized)) = 4
    /\ ret[1] \notin Range(LOWER)

\* C4: every character returned is a member of buildCharset of the normalized
\* selection: none of a disabled class, and none of I l 1 O 0 | under
\* excludeAmbiguous, for class draws and union draws alike.
C4_OnlyCharsetCharacters ==
    pc = "done" =>
        \A i \in 1..Len(ret) :
            /\ Includes(buildCharset(normalized.include,
                                     normalized.excludeAmbiguous), ret[i])
            /\ \E f \in EnabledClasses(normalized) :
                  Includes(Canonical(f), ret[i])
            /\ Truthy(normalized.excludeAmbiguous) =>
                  ret[i] \notin {"I", "l", "1", "O", "0", "|"}

\* C4 witness: a returned string under excludeAmbiguous and requireEachClass
\* with a disabled class, holding class-step and union-step characters
C4_Witness ==
    /\ pc = "done"
    /\ Truthy(normalized.excludeAmbiguous)
    /\ Truthy(normalized.requireEachClass)
    /\ Cardinality(EnabledClasses(normalized)) = 2
    /\ remaining > 0

\* C5: with all four class flags false buildCharset is empty, whatever
\* excludeAmbiguous is, and generatePassword throws NoCharactersAvailable
\* instead of returning.
C5_NoCharactersAvailable ==
    /\ \A ea \in BooleanInputs :
          buildCharset(Include(Bool(FALSE), Bool(FALSE), Bool(FALSE),
                               Bool(FALSE)), ea) = <<>>
    /\ (/\ op = "generatePassword"
        /\ pc # "start"
        /\ options.include = Include(Bool(FALSE), Bool(FALSE), Bool(FALSE),
                                     Bool(FALSE)))
       => /\ pc = "error"
          /\ error = "No characters available for password generation"
          /\ ret = Undefined

\* C5 witness: the call over the empty selection has thrown
C5_Witness ==
    /\ pc = "error"
    /\ options.include = Include(Bool(FALSE), Bool(FALSE), Bool(FALSE),
                                 Bool(FALSE))
    /\ options.excludeAmbiguous = Bool(FALSE)
    /\ unionCharset = <<>>

\* C6: normalizePasswordOptions is idempotent: normalizing the normalized
\* config returns it unchanged, field by field.
C6_NormalizeIdempotent ==
    op = "normalizeAgain" =>
        /\ ret.length = prev.length
        /\ ret.include = prev.include
        /\ ret.excludeAmbiguous = prev.excludeAmbiguous
        /\ ret.requireEachClass = prev.requireEachClass

\* C6 witness: a second normalization of a config that gave a fractional
\* length, a partial include object and no requireEachClass
C6_Witness ==
    /\ op = "normalizeAgain"
    /\ options.length = NumQ(10 * Scale + 1)
    /\ options.include.t = "object"
    /\ options.include.uppercase = Undefined
    /\ options.requireEachClass = Undefined

RoundHalfAwayFromZero(q) ==
    IF q >= 0 THEN (2 * q + Scale) \div (2 * Scale)
    ELSE -((2 * (-q) + Scale) \div (2 * Scale))

Clamp(x, lo, hi) == IF x < lo THEN lo ELSE IF x > hi THEN hi ELSE x

\* C7: for every provided numeric length normalizePasswordOptions returns
\* length = clamp(round half away from zero, 8, 128), an integer in [8,128].
C7_LengthRoundedAndClamped ==
    (op = "normalize" /\ options.length.t = "number") =>
        /\ ret.length.t = "number"
        /\ ret.length.q =
              Scale * Clamp(RoundHalfAwayFromZero(options.length.q), 8, 128)
        /\ ret.length.q % Scale = 0
        /\ ret.length.q >= 8 * Scale
        /\ ret.length.q <= 128 * Scale

\* C7 witness: an exact .5 tie strictly inside (8, 128) was normalized and
\* rounded up to the next integer
C7_Witness ==
    /\ op = "normalize"
    /\ options.length.t = "number"
    /\ (2 * options.length.q) % (2 * Scale) = Scale
    /\ options.length.q > 8 * Scale
    /\ options.length.q < 128 * Scale
    /\ 2 * ret.length.q = 2 * options.length.q + Scale

Absent(v) == v = Undefined \/ v = Null

FlagNames == {"lowercase", "uppercase", "digits", "symbols"}

\* the include object a config provides, every flag absent when it gives none
ProvidedInclude(o) ==
    IF o.include.t = "object" THEN o.include
    ELSE Include(Undefined, Undefined, Undefined, Undefined)

\* C8, as claimed: every field that is absent or of the wrong type is replaced
\* by its default, a well-typed field is preserved, and the result always has
\* four boolean class flags and two boolean options.
C8_WrongTypeReplacedByDefault ==
    op = "normalize" =>
        /\ \A f \in FlagNames :
              /\ ret.include[f].t = "boolean"
              /\ ret.include[f] =
                    IF ProvidedInclude(options)[f].t = "boolean"
                    THEN ProvidedInclude(options)[f]
                    ELSE defaultInclude[f]
        /\ \A f \in {"excludeAmbiguous", "requireEachClass"} :
              /\ ret[f].t = "boolean"
              /\ ret[f] = IF options[f].t = "boolean" THEN options[f]
                          ELSE Bool(TRUE)
        /\ (Absent(options.length) => ret.length = Num(20))

\* C8, amended: every field that is absent (undefined or null) is replaced by
\* its default (length 20; lowercase, uppercase, digits true; symbols false;
\* excludeAmbiguous true; requireEachClass true); a provided flag is kept as
\* given whatever its type, so the flags of the result are all booleans
\* whenever every provided flag is a boolean.
C8_AbsentReplacedByDefault ==
    op = "normalize" =>
        /\ \A f \in FlagNames :
              ret.include[f] =
                  IF Absent(ProvidedInclude(options)[f])
                  THEN (IF f = "symbols" THEN Bool(FALSE) ELSE Bool(TRUE))
                  ELSE ProvidedInclude(options)[f]
        /\ \A f \in {"excludeAmbiguous", "requireEachClass"} :
              ret[f] = IF Absent(options[f]) THEN Bool(TRUE) ELSE options[f]
        /\ (Absent(options.length) => ret.length = Num(20))
        /\ ((/\ \A f \in FlagNames :
                   ProvidedInclude(options)[f].t \in
                       {"boolean", "undefined", "null"}
             /\ \A f \in {"excludeAmbiguous", "requireEachClass"} :
                   options[f].t \in {"boolean", "undefined", "null"})
            => /\ \A f \in FlagNames : ret.include[f].t = "boolean"
               /\ ret.excludeAmbiguous.t = "boolean"
               /\ ret.requireEachClass.t = "boolean")

\* C8 witness: a config with a string in requireEachClass, a partial include
\* object holding a string and no excludeAmbiguous was normalized
C8_Witness ==
    /\ op = "normalize"
    /\ options.requireEachClass = Str("yes")
    /\ options.excludeAmbiguous = Null
    /\ options.include.t = "object"
    /\ options.include.digits = Str("yes")
    /\ options.include.symbols = Undefined
    /\ options.include.lowercase = Bool(FALSE)
    /\ ret.include.lowercase = Bool(FALSE)
    /\ ret.requireEachClass = Str("yes")

ProvidedLengthQ(o) == IF Absent(o.length) THEN 20 * Scale ELSE o.length.q

ProvidedClassCount(o) ==
    IF Absent(o.include) THEN 3
    ELSE Cardinality({f \in FlagNames : Truthy(o.include[f])})

LengthRuleViolated(o) ==
    ~(/\ ProvidedLengthQ(o) % Scale = 0
      /\ ProvidedLengthQ(o) >= 8 * Scale
      /\ ProvidedLengthQ(o) <= 128 * Scale)

ClassRuleViolated(o) == ProvidedClassCount(o) = 0

RequireEachRuleViolated(o) ==
    /\ Truthy(o.requireEachClass)
    /\ ProvidedLengthQ(o) < ProvidedClassCount(o) * Scale

HasError(result, messages) ==
    \E i \in 1..Len(result.errors) : result.errors[i] \in messages

\* C10: validatePasswordOptions returns an error entry for each violated rule
\* among (1) length an integer in [8,128], (2) a class enabled, (3) if
\* requireEachClass, length >= the number of enabled classes: all of them, not
\* only the first, and valid is true exactly when the list is empty.
C10_AllViolatedRulesReported ==
    op = "validate" =>
        /\ LengthRuleViolated(options) <=>
              HasError(ret, {"Length must be an integer",
                             "Length must be between 8 and 128"})
        /\ ClassRuleViolated(options) <=>
              HasError(ret, {"At least one character class must be enabled"})
        /\ RequireEachRuleViolated(options) <=>
              HasError(ret, {"Length must be at least 0 when requiring each class",
                             "Length must be at least 1 when requiring each class",
                             "Length must be at least 2 when requiring each class",
                             "Length must be at least 3 when requiring each class",
                             "Length must be at least 4 when requiring each class"})
        /\ Len(ret.errors) =
              Cardinality({r \in {1, 2, 3} :
                  \/ r = 1 /\ LengthRuleViolated(options)
                  \/ r = 2 /\ ClassRuleViolated(options)
                  \/ r = 3 /\ RequireEachRuleViolated(options)})
        /\ ret.valid = (ret.errors = <<>>)

\* C10 witness: a config that violates the length rule and the require-each
\* rule at once got both errors
C10_Witness ==
    /\ op = "validate"
    /\ options.length = Num(2)
    /\ Len(ret.errors) = 2
    /\ ret.errors[1] = "Length must be between 8 and 128"
    /\ ret.errors[2] = "Length must be at least 3 when requiring each class"
    /\ ~ret.valid

----------------------------------------------------------------------------
(* Properties of generatePassphrase *)

\* the word count generatePassphrase was called with names a valid count
WordCountInRange(o) ==
    /\ o.wordCount.t = "number"
    /\ o.wordCount.q % Scale = 0
    /\ 3 * Scale <= o.wordCount.q
    /\ o.wordCount.q <= 10 * Scale

\* the error list a rejected word count is reported with
WordCountErrors(o) ==
    IF o.wordCount.q % Scale # 0 THEN "Word count must be an integer"
    ELSE "Word count must be between 3 and 10"

\* the number of words generatePassphrase has to draw
WordsAsked(o) == IF o.wordCount.t = "number" THEN o.wordCount.q \div Scale
                 ELSE 5

\* the separator generatePassphrase has to join with
SeparatorAsked(o) == IF o.separator.t = "string" THEN o.separator.s
                     ELSE <<"-">>

Asked(flag) == flag.t = "boolean" /\ flag.b

\* the total length of the first k words
RECURSIVE LettersBefore(_, _)
LettersBefore(list, k) ==
    IF k = 0 THEN 0 ELSE Len(list[k]) + LettersBefore(list, k - 1)

\* where word k starts in the words joined by sep: right after the k - 1
\* words and the k - 1 separators before it
Offset(list, sep, k) == LettersBefore(list, k - 1) + (k - 1) * Len(sep) + 1

\* the length of the words joined by sep
JoinedLength(list, sep) ==
    LettersBefore(list, Len(list)) + (Len(list) - 1) * Len(sep)

\* the positions of text where sep occurs
Occurrences(text, sep) ==
    {p \in 1..(Len(text) - Len(sep) + 1) :
        SubSeq(text, p, p + Len(sep) - 1) = sep}

Lowercase(word) ==
    [i \in 1..Len(word) |->
        IF \E j \in 1..Len(UPPER) : UPPER[j] = word[i]
        THEN LOWER[CHOOSE j \in 1..Len(UPPER) : UPPER[j] = word[i]]
        ELSE word[i]]

UppercaseCount(text) ==
    Cardinality({p \in 1..Len(text) : text[p] \in Range(UPPER)})

----------------------------------------------------------------------------
(* Properties of shuffle *)

\* how often value occurs in list
Count(list, value) == Cardinality({p \in 1..Len(list) : list[p] = value})

\* C15: at every point of shuffle the array has the length and the multiset
\* of elements of the array passed in, and an array of length 0 or 1 is left
\* as it is with no sampler call made and no byte drawn.
C15_ShuffleOnlyPermutes ==
    op = "shuffle" =>
        /\ Len(shuffleArray) = Len(shuffleInput)
        /\ \A value \in Range(shuffleInput) \cup Range(shuffleArray) :
              Count(shuffleArray, value) = Count(shuffleInput, value)
        /\ Len(shuffleInput) <= 1 =>
              /\ shuffleArray = shuffleInput
              /\ draws = <<>>
              /\ rng.index = 0
              /\ pc # "error"

\* C15 witness: an array with a repeated element came back reordered
C15_Witness ==
    /\ op = "shuffle"
    /\ pc = "done"
    /\ shuffleInput = <<1, 2, 2>>
    /\ shuffleArray = <<2, 2, 1>>
    /\ Len(draws) = 2

\* the vectors of indices (j_{n-1}, ..., j_1) with j_i in [0, i]; the index
\* drawn for position i is entry n - i
DrawVectors(length) ==
    {js \in [1..(length - 1) -> 0..(length - 1)] :
        \A k \in 1..(length - 1) : js[k] <= length - k}

\* the ordering the indices js give: positions i and j_i exchanged for i from
\* n - 1 down to 1
FisherYates(list, js) ==
    LET RECURSIVE Go(_, _)
        Go(a, i) ==
            IF i <= 0 THEN a
            ELSE LET j == js[Len(list) - i]
                 IN  Go([a EXCEPT ![i + 1] = a[j + 1], ![j + 1] = a[i + 1]],
                        i - 1)
    IN  Go(list, Len(list) - 1)

Orderings(list) ==
    {[k \in 1..Len(list) |-> list[p[k]]] : p \in Permutations(1..Len(list))}

RECURSIVE Factorial(_)
Factorial(m) == IF m <= 1 THEN 1 ELSE m * Factorial(m - 1)

\* C16: when shuffle returns on n distinct elements it has made exactly one
\* sampler call for each i from n - 1 down to 1, over i + 1, giving j in
\* [0, i]; the array is the input with positions i and j exchanged in that
\* order; and the index vectors map one-to-one onto the n! orderings of the
\* input: there are n! vectors and their images are all the orderings.
C16_FisherYatesBijection ==
    (/\ op = "shuffle"
     /\ pc = "done"
     /\ Len(shuffleInput) >= 1
     /\ Cardinality(Range(shuffleInput)) = Len(shuffleInput)) =>
        LET length == Len(shuffleInput)
            image == {FisherYates(shuffleInput, js) :
                         js \in DrawVectors(length)}
        IN  /\ Len(draws) = length - 1
            /\ \A k \in 1..(length - 1) :
                  /\ draws[k].n = length - k + 1
                  /\ draws[k].index \in 0..(length - k)
            /\ shuffleArray =
                  FisherYates(shuffleInput,
                              [k \in 1..(length - 1) |-> draws[k].index])
            /\ Cardinality(DrawVectors(length)) = Factorial(length)
            /\ Cardinality(image) = Factorial(length)
            /\ image = Orderings(shuffleInput)

\* C16 witness: four distinct elements came back reversed, an ordering only
\* the draws (0, 1, 1) give
C16_Witness ==
    /\ op = "shuffle"
    /\ pc = "done"
    /\ shuffleInput = <<1, 2, 3, 4>>
    /\ shuffleArray = <<4, 3, 2, 1>>
    /\ Len(draws) = 3

----------------------------------------------------------------------------
(* Properties of buildCharset *)

\* the canonical set of class f as the union alphabet holds it
Kept(f, excludeAmbiguous) ==
    IF Truthy(excludeAmbiguous)
    THEN SelectSeq(Canonical(f),
                   LAMBDA c : c \notin {"I", "l", "1", "O", "0", "|"})
    ELSE Canonical(f)

Part(norm, f) ==
    IF f \in EnabledClasses(norm) THEN Kept(f, norm.excludeAmbiguous)
    ELSE <<>>

----------------------------------------------------------------------------
(* Properties of the component *)

SettingsKeys ==
    {"mode", "length", "include", "excludeAmbiguous", "requireEachClass",
     "wordCount", "separator", "capitalization", "addDigit", "addSymbol"}

\* C18: once the component is mounted, whatever load, settings change,
\* generate, copy and mode toggle events have happened, the item in
\* localStorage is the JSON text of the settings object: it has the ten
\* settings keys and the four class flags and nothing else, it is the current
\* settings, and no value in it is the generated password or passphrase.
C18_OnlySettingsStored ==
    (op = "component" /\ pc = "mounted") =>
        /\ storage.t = "text"
        /\ storage.kind = "json"
        /\ storage.value = settings
        /\ DOMAIN storage.value = SettingsKeys \cup {"t"}
        /\ DOMAIN storage.value.include =
              {"t", "lowercase", "uppercase", "digits", "symbols"}
        /\ password # "" =>
              /\ \A key \in SettingsKeys :
                    storage.value[key] # Str(password)
              /\ \A key \in FlagNames :
                    storage.value.include[key] # Str(password)

\* C18 witness: nothing was stored at first; the mode was toggled, a
\* passphrase generated and copied, and the stored item is the settings
C18_Witness ==
    /\ op = "component"
    /\ pc = "mounted"
    /\ prev = Null
    /\ settings.mode = Str("passphrase")
    /\ password = "able-acid-aged"
    /\ clipboard = Str(password)
    /\ storage.value.mode = Str("passphrase")

\* the stored object loadSettings read its keys from, if it read any
StoredObject ==
    IF prev # Null /\ prev.kind = "json" /\ prev.value.t = "object"
    THEN prev.value ELSE Obj(<<>>)

Stored(key) ==
    IF key \in DOMAIN StoredObject THEN StoredObject[key] ELSE Undefined

StoredFlag(key) ==
    IF Stored("include").t = "object" /\ key \in DOMAIN Stored("include")
    THEN Stored("include")[key] ELSE Undefined

IsInteger(value) == value.t = "number" /\ value.q % Scale = 0

\* value brought into [low, high]
Nearest(value, low, high) ==
    IF value.q < low * Scale THEN Num(low)
    ELSE IF value.q > high * Scale THEN Num(high)
    ELSE value

\* C19: whatever the stored item was, loadSettings returned a complete
\* settings object (length an integer in [8,128], wordCount an integer in
\* [3,10], boolean flags, a string separator, capitalization none, first or
\* random, mode password or passphrase); for a stored object every key is
\* settled on its own: a well-formed value is kept (an integer length or
\* word count brought into range), a missing or wrong-typed one is replaced
\* by its default; with no item, no JSON or a JSON null the defaults are
\* returned.
C19_LoadSettingsComplete ==
    (op = "component" /\ pc = "mounted") =>
        /\ DOMAIN ret = SettingsKeys \cup {"t"}
        /\ IsInteger(ret.length)
        /\ 8 * Scale <= ret.length.q /\ ret.length.q <= 128 * Scale
        /\ IsInteger(ret.wordCount)
        /\ 3 * Scale <= ret.wordCount.q /\ ret.wordCount.q <= 10 * Scale
        /\ \A key \in FlagNames : ret.include[key].t = "boolean"
        /\ \A key \in {"excludeAmbiguous", "requireEachClass", "addDigit",
                       "addSymbol"} : ret[key].t = "boolean"
        /\ ret.separator.t = "string"
        /\ ret.capitalization \in {Str("none"), Str("first"), Str("random")}
        /\ ret.mode \in {Str("password"), Str("passphrase")}
        /\ (prev = Null \/ prev.kind # "json" \/ prev.value = Null) =>
              ret = defaultSettings
        /\ (prev # Null /\ prev.kind = "json" /\ prev.value.t = "object") =>
              /\ ret.mode = IF Stored("mode") = Str("passphrase")
                            THEN Str("passphrase") ELSE Str("password")
              /\ ret.length = IF IsInteger(Stored("length"))
                              THEN Nearest(Stored("length"), 8, 128)
                              ELSE Num(20)
              /\ ret.wordCount = IF IsInteger(Stored("wordCount"))
                                 THEN Nearest(Stored("wordCount"), 3, 10)
                                 ELSE Num(5)
              /\ \A key \in FlagNames :
                    ret.include[key] =
                        IF StoredFlag(key).t = "boolean" THEN StoredFlag(key)
                        ELSE Bool(key # "symbols")
              /\ \A key \in {"excludeAmbiguous", "requireEachClass"} :
                    ret[key] = IF Stored(key).t = "boolean" THEN Stored(key)
                               ELSE Bool(TRUE)
              /\ \A key \in {"addDigit", "addSymbol"} :
                    ret[key] = IF Stored(key).t = "boolean" THEN Stored(key)
                               ELSE Bool(FALSE)
              /\ ret.separator = IF Stored("separator").t = "string"
                                 THEN Stored("separator") ELSE Str("-")
              /\ ret.capitalization =
                    IF Stored("capitalization")
                          \in {Str("none"), Str("first"), Str("random")}
                    THEN Stored("capitalization") ELSE Str("none")

\* C19 witness: a stored object with a stringified flag and a valid word
\* count gave the default for the flag and kept the word count
C19_Witness ==
    /\ op = "component"
    /\ pc = "mounted"
    /\ prev # Null
    /\ prev.kind = "json"
    /\ Stored("addDigit") = Str("false")
    /\ Stored("wordCount") = Num(6)
    /\ ret.addDigit = Bool(FALSE)
    /\ ret.wordCount = Num(6)
    /\ ret.length = Num(20)

\* C20: for a stored object whose length is a number, integer or fractional,
\* in or out of range, the length loadSettings returned is the length
\* normalizePasswordOptions gives for it.
C20_LoadedLengthIsNormalizedLength ==
    (op = "component" /\ pc = "mounted" /\ Stored("length").t = "number") =>
        ret.length =
            normalizePasswordOptions(
                [length |-> Stored("length"), include |-> Undefined,
                 excludeAmbiguous |-> Undefined,
                 requireEachClass |-> Undefined]).length

----------------------------------------------------------------------------
(* Properties of the two charset builders in generatePassword *)

\* C25: generatePassword never fails with 'No character classes available':
\* whenever the union charset is not empty (the first check passed) and
\* requireEachClass is set, the list of class charsets is not empty.
C25_NoClassesAvailableUnreachable ==
    op = "generatePassword" =>
        /\ error # "No character classes available"
        /\ (/\ pc # "start"
            /\ Len(unionCharset) > 0
            /\ Truthy(normalized.requireEachClass))
           => Len(classCharsets) > 0

\* C25 witness: requireEachClass with the symbols alone passes both checks
\* with a list of one class charset
C25_Witness ==
    /\ op = "generatePassword"
    /\ pc = "class"
    /\ Truthy(normalized.requireEachClass)
    /\ EnabledClasses(normalized) = {"symbols"}
    /\ Len(unionCharset) > 0
    /\ Len(classCharsets) = 1
    /\ error = ""

\* the strings of a list one after the other
RECURSIVE Concat(_)
Concat(strings) == IF strings = <<>> THEN <<>>
                   ELSE Head(strings) \o Concat(Tail(strings))

\* C27: for each class selection and both values of excludeAmbiguous the
\* union charset is the class charsets of getClassCharsets one after the
\* other, getClassCharsets gives one non-empty string per enabled class, and
\* with requireEachClass the number of union draws is the length minus the
\* number of enabled classes, never negative.  The builders are compared
\* where generatePassword has called them and placed no character yet.
C27_CharsetBuildersAgree ==
    (op = "generatePassword" /\ pc # "start") =>
        LET enabled == Cardinality(EnabledClasses(normalized))
        IN  /\ password = <<>> =>
                  LET classes == getClassCharsets(normalized.include,
                                                  normalized.excludeAmbiguous)
                  IN  /\ Concat(classes) = unionCharset
                      /\ Len(classes) = enabled
                      /\ \A i \in 1..Len(classes) : Len(classes[i]) > 0
                      /\ (Truthy(normalized.requireEachClass)
                          /\ pc # "error") => classCharsets = classes
            /\ (/\ Truthy(normalized.requireEachClass)
                /\ pc \in {"fill", "shuffle", "done"})
               => /\ Len(classCharsets) = enabled
                  /\ remaining = (normalized.length.q \div Scale) - enabled
                  /\ remaining >= 0

\* C27 witness: four classes, ambiguous characters excluded, length 8: four
\* class charsets that make up the 80 characters of the union, four union
\* draws left
C27_Witness ==
    /\ op = "generatePassword"
    /\ pc = "fill"
    /\ Truthy(normalized.requireEachClass)
    /\ Truthy(normalized.excludeAmbiguous)
    /\ Len(classCharsets) = 4
    /\ Len(Concat(classCharsets)) = 80
    /\ Concat(classCharsets) = unionCharset
    /\ normalized.length = Num(PASSWORD_LENGTH_MIN)
    /\ remaining = 4

\* C28: for every config that validatePasswordOptions accepts,
\* generatePassword raises neither 'No characters available for password
\* generation' nor 'No character classes available', and the string it
\* returns has exactly the length of the config, 20 when it gives none.
C28_ValidConfigGenerates ==
    (op = "generatePassword" /\ validatePasswordOptions(options).valid) =>
        /\ error \notin {"No characters available for password generation",
                         "No character classes available"}
        /\ pc = "done" =>
              Len(ret) * Scale =
                  Coalesce(options.length, Num(DEFAULT_PASSWORD_LENGTH)).q

\* C28 witness: a valid config of length 8 has returned eight characters
C28_Witness ==
    /\ op = "generatePassword"
    /\ pc = "done"
    /\ validatePasswordOptions(options).valid
    /\ options.length = Num(PASSWORD_LENGTH_MIN)
    /\ Len(ret) = PASSWORD_LENGTH_MIN

\* C28 witness for the default: a valid config without a length has
\* returned twenty characters
C28_DefaultLengthReturned ==
    /\ op = "generatePassword"
    /\ pc = "done"
    /\ validatePasswordOptions(options).valid
    /\ options.length = Undefined
    /\ Len(ret) = DEFAULT_PASSWORD_LENGTH

----------------------------------------------------------------------------
(* Properties of validation after and beside normalization *)

\* C26: for every partial config, validatePasswordOptions of the normalized
\* config is valid exactly when the normalized config enables at least one
\* class; no length rule ever fails on a normalized config.
C26_NormalizedValidIffClassEnabled ==
    op = "validateNormalized" =>
        /\ ret.valid <=> EnabledClasses(prev) # {}
        /\ \A i \in 1..Len(ret.errors) :
              ret.errors[i] = "At least one character class must be enabled"

\* C26 witness: a config with a length below the range, a class and
\* requireEachClass is valid once normalized
C26_Witness ==
    /\ op = "validateNormalized"
    /\ options.length.t = "number"
    /\ options.length.q < 0
    /\ Truthy(options.requireEachClass)
    /\ prev.length = Num(PASSWORD_LENGTH_MIN)
    /\ EnabledClasses(prev) # {}
    /\ ret.valid

\* C26 witness for the other side: a normalized config with no class has the
\* class error alone
C26_NoClassInvalid ==
    /\ op = "validateNormalized"
    /\ EnabledClasses(prev) = {}
    /\ ~ret.valid
    /\ ret.errors = <<"At least one character class must be enabled">>

\* C29, as claimed: for every input, also one whose include object gives only
\* some of the four flags, validatePasswordOptions reports 'At least one
\* character class must be enabled' exactly when the normalized input has
\* all four flags false, and the class count of its require-each rule is the
\* number of flags that are true after normalization.
C29_SameClassResolution ==
    op = "validate" =>
        LET norm == normalizePasswordOptions(options)
            count == Cardinality(EnabledClasses(norm))
        IN  /\ HasError(ret, {"At least one character class must be enabled"})
               <=> count = 0
            /\ Truthy(options.requireEachClass) =>
                  (HasError(ret, {"Length must be at least "
                                  \o ToString(count)
                                  \o " when requiring each class"})
                   <=> ProvidedLengthQ(options) < count * Scale)

\* the include object gives every flag a boolean
FullInclude(o) ==
    /\ o.include.t = "object"
    /\ \A f \in FlagNames : o.include[f].t = "boolean"

\* C29 on the inputs the types allow: with no include object or one that
\* gives all four flags, the two functions resolve the classes alike
C29_SameResolutionWhenFull ==
    (op = "validate" /\ (Absent(options.include) \/ FullInclude(options)))
        => /\ HasError(ret, {"At least one character class must be enabled"})
              <=> EnabledClasses(normalizePasswordOptions(options)) = {}
           /\ ProvidedClassCount(options) =
                 Cardinality(EnabledClasses(normalizePasswordOptions(options)))

----------------------------------------------------------------------------
(* Properties of the displayed output *)

\* C30, as claimed: once the effects of a settings change have run, the
\* string the component displays is one generated under the current
\* settings, never one left over from earlier settings, also after every
\* character class has been disabled.
C30_OutputFromCurrentSettings ==
    (op = "component" /\ pc = "mounted" /\ password # "") =>
        password \in Generated(settings)

----------------------------------------------------------------------------
(* Properties of one uniformRandomIndex call *)

\* C22: uniformRandomIndex draws no bytes when n <= 1: for n <= 0 it fails
\* with 'n must be positive' and for n = 1 it returns 0, in both cases
\* without a call of the RandomSource.
C22_NoDrawForTrivialSizes ==
    (op = "uniformRandomIndex" /\ setSize <= 1 /\ pc # "call") =>
        /\ fed = 0
        /\ rng = prev
        /\ loopIndex = 1
        /\ setSize <= 0 => (pc = "error" /\ error = "n must be positive"
                            /\ ret = Undefined)
        /\ setSize = 1 => (pc = "done" /\ ret = Num(0) /\ error = "")

\* C22 witness: n = 1 has returned 0 from a RandomSource of two bytes whose
\* next byte is still the first
C22_Witness ==
    /\ op = "uniformRandomIndex"
    /\ setSize = 1
    /\ pc = "done"
    /\ ret = Num(0)
    /\ Len(rng.sequence) = 2
    /\ rng.index = 0
    /\ fed = 0

\* C22 witness for the failure: n = 0 has thrown without a draw
C22_ThrownWithoutDraw ==
    /\ op = "uniformRandomIndex"
    /\ setSize = 0
    /\ pc = "error"
    /\ error = "n must be positive"
    /\ rng = prev
    /\ fed = 0

\* the number of bytes of one block and the limit of n, for n in 2..65536
BlockLength(nn) == IF nn <= 256 THEN 1 ELSE 2
Limit(nn) == ((256 ^ BlockLength(nn)) \div nn) * nn

\* the byte the RandomSource r gives as its i-th next one, from 0
ByteAt(r, i) == r.sequence[((r.index + i) % Len(r.sequence)) + 1]

\* the value of the block the j-th next pass reads, from 0
ValueAt(r, nn, j) ==
    IF BlockLength(nn) = 1 THEN ByteAt(r, j)
    ELSE 256 * ByteAt(r, 2 * j) + ByteAt(r, 2 * j + 1)

\* the RandomSource gives a value below the limit to some pass to come
EmitsBelowLimit(r, nn) ==
    \E j \in 0..(Len(r.sequence) - 1) : ValueAt(r, nn, j) < Limit(nn)

\* C24: the rejection loop has no cap on its passes: a call whose
\* RandomSource gives a value below the limit to some pass to come
\* eventually returns, and a call whose RandomSource gives only values at or
\* above the limit (the byte 255 for n = 25) never returns, however many
\* passes it has made.
C24_ReturnsIffBelowLimitEmitted ==
    /\ (/\ op = "uniformRandomIndex"
        /\ setSize >= 2
        /\ EmitsBelowLimit(rng, setSize)) ~> (pc = "done")
    /\ []((/\ op = "uniformRandomIndex"
           /\ setSize >= 2
           /\ ~EmitsBelowLimit(prev, setSize)) => (pc = "call"))

\* C24 witness: n = 25 returned in its second pass, after the byte 250, which
\* is the limit
C24_Witness ==
    /\ op = "uniformRandomIndex"
    /\ setSize = 25
    /\ prev.sequence = <<250, 249>>
    /\ loopIndex = 2
    /\ pc = "done"
    /\ ret = Num(249 % 25)

\* C24, the call that does not return: n = 25 with the byte 255 alone is
\* still in its loop after MaxPasses passes
C24_StillDrawing ==
    /\ op = "uniformRandomIndex"
    /\ setSize = 25
    /\ prev.sequence = <<255>>
    /\ loopIndex = MaxPasses
    /\ pc = "call"

----------------------------------------------------------------------------
(* Properties of the blocks of uniformRandomIndex for n above 256 *)

\* C23: for n > 256 uniformRandomIndex reads blocks of k bytes, k the least
\* with 256^k >= n (2 for 257 and 65536, 3 for 65537), combines a block
\* big-endian, draws again exactly when the value is at or above
\* floor(256^k/n)*n and returns the value mod n, an index in [0,n); over all
\* 256^k blocks every index is returned for exactly floor(256^k/n) of them.
C23_BlockSampling ==
    op = "blocks" =>
        LET k == BlockBytes(setSize)
            limit == ((256 ^ k) \div setSize) * setSize
        IN  /\ 256 ^ k >= setSize
            /\ 256 ^ (k - 1) < setSize
            /\ fed > 0 =>
                  LET value == BlockValue(setSize, fed - 1)
                  IN  /\ ret.read = k
                      /\ ret.status = IF value >= limit THEN "retry"
                                      ELSE "return"
                      /\ ret.status = "return" =>
                            /\ ret.index = value % setSize
                            /\ ret.index \in 0..(setSize - 1)
            /\ \A value \in rejected : value >= limit
            /\ (fed = BlockCount(setSize) /\ k = 2) =>
                  Cardinality(rejected) = (256 ^ k) - limit
            /\ (fed = BlockCount(setSize) /\ setSize <= MaxTallied) =>
                  \A i \in 0..(setSize - 1) :
                      tally[i] = (256 ^ k) \div setSize

\* C23, the count reached: all 65536 two-byte blocks fed for n = 257: 255 blocks for
\* every index and the block 65535 alone drawn again
C23_AllBlocksTallied ==
    /\ op = "blocks"
    /\ setSize = 257
    /\ fed = 256 * 256
    /\ tally[0] = 255
    /\ tally[256] = 255
    /\ rejected = {65535}

\* C23 witness: three bytes for n = 65537, the block of value
\* 255 * 65537 - 1, the last below the limit, returned 65536
C23_Witness ==
    /\ op = "blocks"
    /\ setSize = 65537
    /\ fed > 0
    /\ BlockValue(setSize, fed - 1) = 255 * 65537 - 1
    /\ ret = [status |-> "return", index |-> 65536, read |-> 3]

----------------------------------------------------------------------------
(* Properties of interleaved generation calls *)

\* the locals of the one call the generation variables hold
AsCall ==
    [kind |-> op, options |-> options, source |-> Undefined, rng |-> rng,
     pc |-> pc, normalized |-> normalized, unionCharset |-> unionCharset,
     classCharsets |-> classCharsets, password |-> password,
     loopIndex |-> loopIndex, remaining |-> remaining, error |-> error,
     ret |-> ret, words |-> words, passphrase |-> passphrase,
     draws |-> draws]

\* every step of generatePassword and of generatePassphrase is the step
\* GenerateStep takes on the locals
StepMatchesActions == [][AsCall' = GenerateStep(AsCall)]_vars

====
